---------------------------- MODULE Spec2Model ----------------------------
(***************************************************************************)
(* A model of minarg (include/minarg/minarg.hpp), a command-line argument *)
(* parser.  A std::string is a sequence of characters, a character is a   *)
(* one-letter string, and NUL stands for the character with code 0.       *)
(* The parse call is followed statement by statement: one action per      *)
(* stage of Parser::parseAll and per iteration of its loops.              *)
(***************************************************************************)
EXTENDS Integers, Sequences, FiniteSets, TLC

\* Number of tokens that may follow the utility name in one argument vector.
MaxArgs == 3

NUL == "NUL"

-----------------------------------------------------------------------------
(* std::string helpers *)

\* std::string::compare(0, p.size(), p) == 0
StartsWith(s, p) ==
    /\ Len(s) >= Len(p)
    /\ SubSeq(s, 1, Len(p)) = p

\* std::find that looks for '=' when it is asked for the nul character.
FindEqualsForNul(s, from, c) ==
    LET hits == {i \in from..Len(s) : s[i] = (IF c = "NUL" THEN "=" ELSE c)}
    IN  IF hits = {} THEN Len(s) + 1
        ELSE CHOOSE i \in hits : \A j \in hits : i <= j

\* std::find that returns the last occurrence instead of the first.
FindLast(s, from, c) ==
    LET hits == {i \in from..Len(s) : s[i] = c}
    IN  IF hits = {} THEN Len(s) + 1
        ELSE CHOOSE i \in hits : \A j \in hits : i >= j

\* std::find(first, last, c) on indices: the first index i >= from with
\* s[i] = c, or Len(s) + 1 (the end iterator) when there is none.
Find(s, from, c) ==
    LET hits == {i \in from..Len(s) : s[i] = c}
    IN  IF hits = {} THEN Len(s) + 1
        ELSE CHOOSE i \in hits : \A j \in hits : i <= j

\* The range from index first, where the string keeps the character at it.
RangeFromInclusive(s, first) == SubSeq(s, first - 1, Len(s))

\* std::string{first, s.end()}: the characters of s from index first on.
Range(s, first) == SubSeq(s, first, Len(s))

-----------------------------------------------------------------------------
(* Exceptions *)

Error(message, what) == [kind |-> "Error", message |-> message, what |-> what]

Signal(shortName, longName) ==
    [kind |-> "Signal", shortName |-> shortName, longName |-> longName]

Success == [kind |-> "Success"]

Running == [kind |-> "Running"]

-----------------------------------------------------------------------------
(* Numbers.  TLC computes with 32-bit integers, so a natural number is     *)
(* kept as the sequence of its decimal digits, most significant first and  *)
(* without leading zeros (zero is the empty sequence), and an integer as a *)
(* sign and a magnitude.  The 64-bit limits are then exact.                *)

Front(s) == SubSeq(s, 1, Len(s) - 1)

\* m * b + c for a natural m and small b, c.
RECURSIVE MulAdd(_, _, _)
MulAdd(m, b, c) ==
    IF m = <<>>
    THEN IF c = 0 THEN <<>>
         ELSE IF c < 10 THEN <<c>>
         ELSE MulAdd(<<>>, b, c \div 10) \o <<c % 10>>
    ELSE LET v == m[Len(m)] * b + c
         IN  MulAdd(Front(m), b, v \div 10) \o <<v % 10>>

RECURSIVE Trim(_)
Trim(m) == IF m # <<>> /\ Head(m) = 0 THEN Trim(Tail(m)) ELSE m

\* a - b - w on digit sequences, for a >= b + w, keeping the length of a.
RECURSIVE SubDigits(_, _, _)
SubDigits(a, b, w) ==
    IF a = <<>> THEN <<>>
    ELSE LET y == IF b = <<>> THEN 0 ELSE b[Len(b)]
             e == a[Len(a)] - y - w
         IN  SubDigits(Front(a), IF b = <<>> THEN <<>> ELSE Front(b),
                       IF e < 0 THEN 1 ELSE 0)
                \o <<(e + 10) % 10>>

Sub(a, b) == Trim(SubDigits(a, b, 0))

Less(a, b) ==
    \/ Len(a) < Len(b)
    \/ /\ Len(a) = Len(b)
       /\ \E k \in 1..Len(a) : a[k] < b[k] /\ \A j \in 1..k - 1 : a[j] = b[j]

Integer(neg, mag) == [neg |-> neg /\ mag # <<>>, mag |-> mag]

\* a <= b on integers.
IntLessEq(a, b) ==
    IF a.neg /\ b.neg THEN ~Less(a.mag, b.mag)
    ELSE IF a.neg THEN TRUE
    ELSE IF b.neg THEN FALSE
    ELSE ~Less(b.mag, a.mag)

-----------------------------------------------------------------------------
(* Target types.  T names the target type: "string" or an integer type.    *)

IntegerTypes == {"int8", "uint8", "int32", "uint32", "int64", "uint64"}

is_signed ==
    [T \in IntegerTypes |-> T \in {"int8", "int32", "int64"}]

\* The width in bits of T.
Width ==
    [T \in IntegerTypes |->
        CASE T \in {"int8", "uint8"} -> 8
          [] T \in {"int32", "uint32"} -> 32
          [] OTHER -> 64]

-----------------------------------------------------------------------------
(* String to value *)

LowerDigits == <<"0", "1", "2", "3", "4", "5", "6", "7", "8", "9",
                 "a", "b", "c", "d", "e", "f">>
UpperDigits == <<"0", "1", "2", "3", "4", "5", "6", "7", "8", "9",
                 "A", "B", "C", "D", "E", "F">>

\* The characters std::isspace accepts.
Whitespace == {" ", "\t", "\n", "\r", "\f"}

\* The character is a digit of the base.
IsDigit(c, base) ==
    \E d \in 1..base : LowerDigits[d] = c \/ UpperDigits[d] = c

DigitValue(c) ==
    (CHOOSE d \in 1..16 : LowerDigits[d] = c \/ UpperDigits[d] = c) - 1

\* The number written by the digits s[i..j-1].
RECURSIVE Accumulate(_, _, _, _, _)
Accumulate(s, i, j, base, acc) ==
    IF i >= j THEN acc
    ELSE Accumulate(s, i + 1, j, base, MulAdd(acc, base, DigitValue(s[i])))

\* 2^w: the hexadecimal numeral of 2^(w mod 4) followed by w div 4 zeros.
Pow2(w) ==
    LET s == <<LowerDigits[2 ^ (w % 4) + 1]>> \o [k \in 1..(w \div 4) |-> "0"]
    IN  Accumulate(s, 1, Len(s) + 1, 16, <<>>)

\* std::numeric_limits<T>::min() and max()
numeric_limits_min(T) ==
    IF is_signed[T] THEN Integer(TRUE, Pow2(Width[T] - 1)) ELSE Integer(FALSE, <<>>)

numeric_limits_max(T) ==
    IF is_signed[T] THEN Integer(FALSE, Sub(Pow2(Width[T] - 1), <<1>>))
    ELSE Integer(FALSE, Sub(Pow2(Width[T]), <<1>>))

\* The first index k >= from where s[k] does not satisfy the test, or
\* Len(s) + 1.
SkipSpace(s, from) ==
    LET stops == {k \in from..Len(s) : s[k] \notin Whitespace}
    IN  IF stops = {} THEN Len(s) + 1 ELSE CHOOSE k \in stops : \A j \in stops : k <= j

SkipDigits(s, from, base) ==
    LET stops == {k \in from..Len(s) : ~IsDigit(s[k], base)}
    IN  IF stops = {} THEN Len(s) + 1 ELSE CHOOSE k \in stops : \A j \in stops : k <= j

\* The subject sequence of strtoll and strtoull: white space, an optional
\* sign, for base 16 an optional 0x or 0X that a hexadecimal digit follows,
\* and the longest run of digits of the base.  any tells whether a digit
\* was converted, pos is the number of characters consumed.  The digits
\* are s[digits..stop-1].
ScanNumber(s, base, neg, digits, stop) ==
    [any |-> stop > digits,
     neg |-> neg,
     mag |-> Accumulate(s, digits, stop, base, <<>>),
     pos |-> stop - 1]

\* The number starts at s[first], after the sign.
ScanPrefix(s, base, neg, first) ==
    IF /\ base = 16
       /\ first + 2 <= Len(s)
       /\ s[first] = "0"
       /\ s[first + 1] \in {"x", "X"}
       /\ IsDigit(s[first + 2], 16)
    THEN ScanNumber(s, base, neg, first + 2, SkipDigits(s, first + 2, base))
    ELSE ScanNumber(s, base, neg, first, SkipDigits(s, first, base))

\* The white space ends before s[sign].
ScanSign(s, base, sign) ==
    IF sign <= Len(s) /\ s[sign] \in {"+", "-"}
    THEN ScanPrefix(s, base, s[sign] = "-", sign + 1)
    ELSE ScanPrefix(s, base, FALSE, sign)

Scan(s, base) == ScanSign(s, base, SkipSpace(s, 1))

\* The result of strtoll for the scanned number r of value v: v must lie
\* within long long.
stollWithin(r, v) ==
    IF ~r.any THEN [thrown |-> "invalid_argument"]
    ELSE IF ~(IntLessEq(numeric_limits_min("int64"), v)
                /\ IntLessEq(v, numeric_limits_max("int64")))
    THEN [thrown |-> "out_of_range"]
    ELSE [thrown |-> "", value |-> v, pos |-> r.pos]

\* The result of strtoll for the scanned number r.
stollOf(r) == stollWithin(r, Integer(r.neg, r.mag))

\* std::stoll(s, pos, base): long long has 64 bits.
stoll(s, base) == stollOf(Scan(s, base))

\* The result of strtoull for the scanned number r: a negative numeral is
\* negated in the unsigned type, that is, it wraps around.
stoullOf(r) ==
    IF ~r.any THEN [thrown |-> "invalid_argument"]
    ELSE IF ~Less(r.mag, Pow2(64)) THEN [thrown |-> "out_of_range"]
    ELSE [thrown |-> "",
          value  |-> IF r.neg /\ r.mag # <<>>
                     THEN Integer(FALSE, Sub(Pow2(64), r.mag))
                     ELSE Integer(FALSE, r.mag),
          pos    |-> r.pos]

\* std::stoull(s, pos, base)
stoull(s, base) == stoullOf(Scan(s, base))

\* toLongest<T> for unsigned T without the scan for '-'.
toLongestWrapsAround(T, s, base) ==
    IF is_signed[T] THEN stoll(s, base) ELSE stoull(s, base)

\* toLongest<T>: stoll for signed T; for unsigned T an Error if the string
\* holds a '-' anywhere, stoull otherwise.
toLongest(T, s, base) ==
    IF is_signed[T] THEN stoll(s, base)
    ELSE IF \E k \in 1..Len(s) : s[k] = "-" THEN [thrown |-> "Error"]
    ELSE stoull(s, base)

\* fromString<T> with the base left to the conversion (base 0): a leading
\* 0x or 0X selects 16, another leading 0 selects 8.
fromStringAutoBase(T, s) ==
    IF T = "string" THEN [ok |-> TRUE, value |-> s, message |-> ""]
    ELSE LET at   == IF SkipSpace(s, 1) <= Len(s) /\ s[SkipSpace(s, 1)] \in {"+", "-"}
                     THEN SkipSpace(s, 1) + 1 ELSE SkipSpace(s, 1)
             base == IF at + 1 <= Len(s) /\ s[at] = "0" /\ s[at + 1] \in {"x", "X"}
                     THEN 16
                     ELSE IF at <= Len(s) /\ s[at] = "0" THEN 8 ELSE 10
             r    == toLongest(T, s, base)
         IN  IF r.thrown = "Error"
             THEN [ok |-> FALSE, value |-> <<>>,
                   message |-> "Cannot parse unsigned integer: "]
             ELSE IF /\ r.thrown = ""
                     /\ r.pos = Len(s)
                     /\ IntLessEq(numeric_limits_min(T), r.value)
                     /\ IntLessEq(r.value, numeric_limits_max(T))
             THEN [ok |-> TRUE, value |-> r.value, message |-> ""]
             ELSE [ok |-> FALSE, value |-> <<>>, message |-> "Cannot parse integer: "]

\* fromString<T> after toLongest<T> has returned or thrown r: the value is
\* returned if the whole string was consumed and the value lies within the
\* limits of T; the exceptions of the standard library become the Error of
\* the last line.
fromLongest(T, s, r) ==
    IF r.thrown = "Error"
    THEN [ok |-> FALSE, value |-> <<>>, message |-> "Cannot parse unsigned integer: "]
    ELSE IF /\ r.thrown = ""
            /\ r.pos = Len(s)
            /\ IntLessEq(numeric_limits_min(T), r.value)
            /\ IntLessEq(r.value, numeric_limits_max(T))
    THEN [ok |-> TRUE, value |-> r.value, message |-> ""]
    ELSE [ok |-> FALSE, value |-> <<>>, message |-> "Cannot parse integer: "]

\* fromString<T>.  For an integer type the base is 16 if the string holds
\* an x or X anywhere and 10 otherwise.  fromString<std::string> is the
\* identity and never throws.
fromString(T, s) ==
    IF T = "string" THEN [ok |-> TRUE, value |-> s, message |-> ""]
    ELSE fromLongest(T, s,
            toLongest(T, s, IF \E k \in 1..Len(s) : s[k] \in {"X", "x"} THEN 16 ELSE 10))

-----------------------------------------------------------------------------
(* Value to string *)

\* operator<< of an intmax_t or uintmax_t: decimal, no padding.
Decimal(v) ==
    (IF v.neg THEN <<"-">> ELSE <<>>)
       \o (IF v.mag = <<>> THEN <<"0">>
           ELSE [k \in 1..Len(v.mag) |-> LowerDigits[v.mag[k] + 1]])

\* toString<T> with every integer upcast to std::uintmax_t, also the
\* signed ones: a negative value is written as its 64-bit complement.
toStringAsUnsigned(T, value) ==
    IF T = "string" THEN <<"\"">> \o value \o <<"\"">>
    ELSE Decimal(IF value.neg THEN Integer(FALSE, Sub(Pow2(64), value.mag))
                 ELSE value)

\* toString<T> -> toStream<T>: an integer is upcast and written in
\* decimal, a string is written between double quotes.
toString(T, value) ==
    IF T = "string" THEN <<"\"">> \o value \o <<"\"">>
    ELSE Decimal(value)

-----------------------------------------------------------------------------
(* Polymorphic argument types.  The bound target is kept in the record of  *)
(* the argument that holds the reference to it.                            *)

Arg(kind, shortName, longName, valueName, description, isRequired, hasValue, isSink) ==
    [kind         |-> kind,
     shortName_   |-> shortName,
     longName_    |-> longName,
     valueName_   |-> valueName,
     description_ |-> description,
     isRequired_  |-> isRequired,
     hasValue_    |-> hasValue,
     isSink_      |-> isSink,
     isDone_      |-> FALSE]

SignalArg(shortName, longName, description) ==
    Arg("signal", shortName, longName, <<>>, description, FALSE, FALSE, FALSE)

BoolArg(shortName, longName, description, isRequired, target) ==
    Arg("bool", shortName, longName, <<>>, description, isRequired, FALSE, FALSE)
        @@ [target_ |-> target]

ValueArg(T, shortName, longName, valueName, description, isRequired, target) ==
    Arg("value", shortName, longName, valueName, description, isRequired, TRUE, FALSE)
        @@ [T |-> T, target_ |-> target, default_ |-> target]

SinkArg(T, valueName, description, isRequired, target) ==
    Arg("sink", NUL, <<>>, valueName, description, isRequired, TRUE, TRUE)
        @@ [T |-> T, target_ |-> target]

\* Arg::parse with a SinkArg::doParse that assigns instead of appending.
ArgParseSinkAssigns(arg, s) ==
    LET r == fromString(arg.T, s)
    IN  CASE arg.kind = "value" ->
                [thrown |-> ~r.ok, message |-> r.message,
                 arg    |-> IF r.ok THEN [arg EXCEPT !.target_ = r.value] ELSE arg]
          [] arg.kind = "sink" ->
                [thrown |-> ~r.ok, message |-> r.message,
                 arg    |-> IF r.ok THEN [arg EXCEPT !.target_ = <<r.value>>] ELSE arg]
          [] OTHER -> [thrown |-> FALSE, message |-> "", arg |-> arg]

\* Arg::parse with a SinkArg::doParse that pushes to the front.
ArgParseSinkPrepends(arg, s) ==
    LET r == fromString(arg.T, s)
    IN  CASE arg.kind = "value" ->
                [thrown |-> ~r.ok, message |-> r.message,
                 arg    |-> IF r.ok THEN [arg EXCEPT !.target_ = r.value] ELSE arg]
          [] arg.kind = "sink" ->
                [thrown |-> ~r.ok, message |-> r.message,
                 arg    |-> IF r.ok THEN [arg EXCEPT !.target_ = <<r.value>> \o @]
                                    ELSE arg]
          [] OTHER -> [thrown |-> FALSE, message |-> "", arg |-> arg]

\* Arg::parse -> doParse.  The result is the argument after the call and
\* whether the conversion threw.
ArgParse(arg, s) ==
    LET r == fromString(arg.T, s)
    IN  CASE arg.kind = "value" ->
                [thrown |-> ~r.ok, message |-> r.message,
                 arg    |-> IF r.ok THEN [arg EXCEPT !.target_ = r.value] ELSE arg]
          [] arg.kind = "sink" ->
                [thrown |-> ~r.ok, message |-> r.message,
                 arg    |-> IF r.ok THEN [arg EXCEPT !.target_ = Append(@, r.value)]
                                    ELSE arg]
          [] OTHER -> [thrown |-> FALSE, message |-> "", arg |-> arg]

\* Arg::done with a BoolArg::doDone that leaves the target alone.
ArgDoneKeepsTarget(arg) ==
    CASE arg.kind = "signal" ->
            [signal |-> TRUE, arg |-> arg]
      [] OTHER ->
            [signal |-> FALSE, arg |-> [arg EXCEPT !.isDone_ = TRUE]]

\* Arg::done with a SignalArg::doDone that returns instead of throwing.
ArgDoneWithoutSignal(arg) ==
    CASE arg.kind = "bool" ->
            [signal |-> FALSE, arg |-> [arg EXCEPT !.target_ = TRUE, !.isDone_ = TRUE]]
      [] OTHER ->
            [signal |-> FALSE, arg |-> [arg EXCEPT !.isDone_ = TRUE]]

\* Arg::done -> doDone, then isDone_ = true.  SignalArg::doDone throws, so
\* its isDone_ is never set.
ArgDone(arg) ==
    CASE arg.kind = "signal" ->
            [signal |-> TRUE, arg |-> arg]
      [] arg.kind = "bool" ->
            [signal |-> FALSE, arg |-> [arg EXCEPT !.target_ = TRUE, !.isDone_ = TRUE]]
      [] OTHER ->
            [signal |-> FALSE, arg |-> [arg EXCEPT !.isDone_ = TRUE]]

-----------------------------------------------------------------------------
(* Parser: construction, declarations and settings *)

Parser ==
    [shortPrefix_   |-> "-",
     longPrefix_    |-> <<"-", "-">>,
     longSeparator_ |-> "=",
     terminator_    |-> <<"-", "-">>,
     isTerminated_  |-> FALSE,
     helpProlog_    |-> <<>>,
     helpEpilog_    |-> <<>>,
     usageTitle_    |-> <<"U", "S", "A", "G", "E">>,
     optionsTitle_  |-> <<"O", "P", "T", "I", "O", "N", "S">>,
     operandsTitle_ |-> <<"O", "P", "E", "R", "A", "N", "D", "S">>,
     utilityName_   |-> <<>>,
     optionsUsage_  |-> <<>>,
     operandsUsage_ |-> <<>>,
     defaultIntro_  |-> <<"d", "e", "f", "a", "u", "l", "t", ":", " ">>,
     helpWidth_     |-> 80,
     helpIndent_    |-> 2,
     options_       |-> <<>>,
     operands_      |-> <<>>]

\* Parser::Parser(helpProlog, helpEpilog)
ParserWith(helpProlog, helpEpilog) ==
    [Parser EXCEPT !.helpProlog_ = helpProlog, !.helpEpilog_ = helpEpilog]

addSignal(p, shortName, longName, description) ==
    [p EXCEPT !.options_ = Append(@, SignalArg(shortName, longName, description))]

addOption(p, target, shortName, longName, description, isRequired) ==
    [p EXCEPT !.options_ =
        Append(@, BoolArg(shortName, longName, description, isRequired, target))]

addOptionT(p, T, target, shortName, longName, valueName, description, isRequired) ==
    [p EXCEPT !.options_ =
        Append(@, ValueArg(T, shortName, longName, valueName, description,
                           isRequired, target))]

addOperand(p, T, target, valueName, description, isRequired) ==
    [p EXCEPT !.operands_ =
        Append(@, ValueArg(T, NUL, <<>>, valueName, description, isRequired, target))]

addOperandSink(p, T, target, valueName, description, isRequired) ==
    [p EXCEPT !.operands_ =
        Append(@, SinkArg(T, valueName, description, isRequired, target))]

setShortOptionPrefix(p, c)    == [p EXCEPT !.shortPrefix_ = c]
setLongOptionPrefix(p, s)     == [p EXCEPT !.longPrefix_ = s]
setLongOptionSeparator(p, c)  == [p EXCEPT !.longSeparator_ = c]
setOptionTerminator(p, s)     == [p EXCEPT !.terminator_ = s]
setUsageTitle(p, s)           == [p EXCEPT !.usageTitle_ = s]
setOptionsTitle(p, s)         == [p EXCEPT !.optionsTitle_ = s]
setOperandsTitle(p, s)        == [p EXCEPT !.operandsTitle_ = s]
setUtilityName(p, s)          == [p EXCEPT !.utilityName_ = s]
setOptionsUsage(p, s)         == [p EXCEPT !.optionsUsage_ = s]
setOperandsUsage(p, s)        == [p EXCEPT !.operandsUsage_ = s]
setDefaultValueIntro(p, s)    == [p EXCEPT !.defaultIntro_ = s]
setHelpWidth(p, s)            == [p EXCEPT !.helpWidth_ = IF s > 0 THEN s ELSE 0]
setHelpIndent(p, s)           == [p EXCEPT !.helpIndent_ = IF s > 0 THEN s ELSE 0]


-----------------------------------------------------------------------------
(* State *)

VARIABLES
    shortPrefix_, longPrefix_, longSeparator_, terminator_,   \* Parser settings
    isTerminated_, utilityName_, options_, operands_,         \* Parser state
    vocabulary,     \* the tokens the caller may pass to this parser
    argv,           \* the argument vector of the running parse call
    it,             \* ParseIt it: index of the next token, Len(argv)+1 = end
    token,          \* parseShortOptions: index in argv of the token it walks
    nameIt,         \* parseShortOptions: index of the next character
    operand,        \* parseOperands: index of the current operand
    pc,             \* the statement of parseAll that runs next
    outcome,        \* Running, Success, or the exception that left parse()
    role,           \* per token: how the call consumed it
    before,         \* which call runs, and the parser when it was entered
    codec,          \* a ValueArg<T> on its own and the string it is given
    helpProlog_, helpEpilog_, usageTitle_, optionsTitle_, operandsTitle_,
    optionsUsage_, operandsUsage_, defaultIntro_, helpWidth_, helpIndent_,
    stream,         \* what the last operator<< wrote, and when
    wrap            \* a call of Parser::writeWrapped and its progress

settings == <<shortPrefix_, longPrefix_, longSeparator_, terminator_>>

helpSettings == <<helpProlog_, helpEpilog_, usageTitle_, optionsTitle_,
                  operandsTitle_, optionsUsage_, operandsUsage_, defaultIntro_,
                  helpWidth_, helpIndent_>>

\* The state that no step of a parse call reads or writes.
elsewhere == <<codec, helpSettings, stream, wrap>>

\* The parser and its parse call.
parserVars == <<shortPrefix_, longPrefix_, longSeparator_, terminator_,
                isTerminated_, utilityName_, options_, operands_, vocabulary,
                argv, it, token, nameIt, operand, pc, outcome, role, before>>

vars == <<parserVars, elsewhere>>

end == Len(argv) + 1

-----------------------------------------------------------------------------
(* Parse *)

\* An exception that is recorded while the call goes on with the next
\* statement.
ThrowAndGoOn(e) ==
    /\ outcome' = e
    /\ pc' = pc

\* The exception leaves parse(): nothing else of the call runs.
Throw(e) ==
    /\ outcome' = e
    /\ pc' = "done"

\* Parser::parseTerminator without the test of isTerminated_.
TerminatorMatchesAgain ==
    /\ it # end
    /\ terminator_ # <<>>
    /\ argv[it] = terminator_

\* Parser::parseTerminator as a condition: the call consumes *it.
TerminatorMatches ==
    /\ it # end
    /\ ~isTerminated_
    /\ terminator_ # <<>>
    /\ argv[it] = terminator_

\* The predictions read the token at index i and the flag isTerminated_ as
\* it is when they are called.
predictLongOption(i, terminated) ==
    /\ i # end
    /\ ~terminated
    /\ longPrefix_ # <<>>
    /\ Len(argv[i]) > Len(longPrefix_)
    /\ StartsWith(argv[i], longPrefix_)

\* Parser::predictShortOption with the size test off by one.
predictShortOptionOffByOne(i, terminated) ==
    /\ i # end
    /\ ~terminated
    /\ Len(argv[i]) > 2
    /\ Head(argv[i]) = shortPrefix_

predictShortOption(i, terminated) ==
    /\ i # end
    /\ ~terminated
    /\ Len(argv[i]) > 1
    /\ Head(argv[i]) = shortPrefix_

\* Parser::getOption(const std::string&) without the test for the empty name.
getOptionLongAnyName(name) ==
    LET hits == {i \in 1..Len(options_) : options_[i].longName_ = name}
    IN  IF hits # {}
        THEN CHOOSE i \in hits : \A j \in hits : i <= j
        ELSE 0

\* Parser::getOption(const std::string&): index of the first option with
\* that long name, 0 when the lookup throws.
getOptionLong(name) ==
    LET hits == {i \in 1..Len(options_) : options_[i].longName_ = name}
    IN  IF name # <<>> /\ hits # {}
        THEN CHOOSE i \in hits : \A j \in hits : i <= j
        ELSE 0

\* Parser::getOption(char)
getOptionShort(name) ==
    LET hits == {i \in 1..Len(options_) : options_[i].shortName_ = name}
    IN  IF name # NUL /\ hits # {}
        THEN CHOOSE i \in hits : \A j \in hits : i <= j
        ELSE 0

\* Parser::expandName
expandName(arg) ==
    IF arg.shortName_ # NUL THEN <<shortPrefix_, arg.shortName_>>
    ELSE IF arg.longName_ # <<>> THEN longPrefix_ \o arg.longName_
    ELSE arg.valueName_

\* Parser::checkRequired reporting the last unsatisfied argument.
checkRequiredOfLast(args) ==
    LET missing == {i \in 1..Len(args) : args[i].isRequired_ /\ ~args[i].isDone_}
    IN  IF missing = {} THEN Success
        ELSE Error("Cannot find required argument: ",
                   expandName(args[CHOOSE i \in missing : \A j \in missing : i >= j]))

\* Parser::checkRequired(args): the exception it throws, or Success.
checkRequiredOf(args) ==
    LET missing == {i \in 1..Len(args) : args[i].isRequired_ /\ ~args[i].isDone_}
    IN  IF missing = {} THEN Success
        ELSE Error("Cannot find required argument: ",
                   expandName(args[CHOOSE i \in missing : \A j \in missing : i <= j]))

\* The stage after parseOptions: parseOperands runs its loop body once per
\* declared operand, and not at all when there is none.
AfterOptions == IF operands_ = <<>> THEN "parseTerminator" ELSE "parseOperands"

\* void parse(const std::vector<std::string>& argv)
parse ==
    /\ pc = "idle"
    /\ \E n \in 0..MaxArgs :
         \E first \in vocabulary.first :
           \E rest \in [1..n -> vocabulary.rest] :
              argv' \in {<<>>, <<first>> \o rest}
    /\ it' = 1
    /\ role' = [i \in 1..Len(argv') |-> "none"]
    /\ before' = [call |-> "first", isTerminated |-> isTerminated_,
                  options |-> options_, operands |-> operands_]
    /\ outcome' = Running
    /\ pc' = "parseUtility"
    /\ UNCHANGED <<settings, elsewhere, isTerminated_, utilityName_, options_, operands_,
                   vocabulary, token, nameIt, operand>>

\* parse() called again, starting with the terminated state cleared.
parseAgainNotTerminated ==
    /\ pc = "done"
    /\ before.call = "first"
    /\ \E n \in 0..MaxArgs :
         \E first \in vocabulary.first :
           \E rest \in [1..n -> vocabulary.rest] :
              argv' \in {<<>>, <<first>> \o rest}
    /\ it' = 1
    /\ token' = 1
    /\ nameIt' = 1
    /\ operand' = 1
    /\ role' = [i \in 1..Len(argv') |-> "none"]
    /\ before' = [call |-> "later", isTerminated |-> isTerminated_,
                  options |-> options_, operands |-> operands_]
    /\ outcome' = Running
    /\ pc' = "parseUtility"
    /\ isTerminated_' = FALSE
    /\ UNCHANGED <<settings, elsewhere, utilityName_, options_, operands_, vocabulary>>

\* parse() called again, starting with no argument done.
parseAgainNotDone ==
    /\ pc = "done"
    /\ before.call = "first"
    /\ \E n \in 0..MaxArgs :
         \E first \in vocabulary.first :
           \E rest \in [1..n -> vocabulary.rest] :
              argv' \in {<<>>, <<first>> \o rest}
    /\ it' = 1
    /\ token' = 1
    /\ nameIt' = 1
    /\ operand' = 1
    /\ role' = [i \in 1..Len(argv') |-> "none"]
    /\ before' = [call |-> "later", isTerminated |-> isTerminated_,
                  options |-> options_, operands |-> operands_]
    /\ outcome' = Running
    /\ pc' = "parseUtility"
    /\ options_' = [o \in DOMAIN options_ |-> [options_[o] EXCEPT !.isDone_ = FALSE]]
    /\ operands_' = [o \in DOMAIN operands_ |-> [operands_[o] EXCEPT !.isDone_ = FALSE]]
    /\ UNCHANGED <<settings, elsewhere, isTerminated_, utilityName_, vocabulary>>

\* parse() called again on the same Parser after a call has returned or
\* thrown: a new iterator over a new argv, and the parser as it was left.
parseAgain ==
    /\ pc = "done"
    /\ before.call = "first"
    /\ \E n \in 0..MaxArgs :
         \E first \in vocabulary.first :
           \E rest \in [1..n -> vocabulary.rest] :
              argv' \in {<<>>, <<first>> \o rest}
    /\ it' = 1
    /\ token' = 1
    /\ nameIt' = 1
    /\ operand' = 1
    /\ role' = [i \in 1..Len(argv') |-> "none"]
    /\ before' = [call |-> "later", isTerminated |-> isTerminated_,
                  options |-> options_, operands |-> operands_]
    /\ outcome' = Running
    /\ pc' = "parseUtility"
    /\ UNCHANGED <<settings, elsewhere, isTerminated_, utilityName_, options_, operands_,
                   vocabulary>>

\* Parser::parseUtility storing the first token over a configured name.
parseUtilityOverwrites ==
    /\ pc = "parseUtility"
    /\ IF it = end
       THEN UNCHANGED <<utilityName_, it, role>>
       ELSE /\ utilityName_' = argv[it]
            /\ it' = it + 1
            /\ role' = [role EXCEPT ![it] = "utility"]
    /\ pc' = "parseOptions"
    /\ UNCHANGED <<settings, elsewhere, isTerminated_, options_, operands_, vocabulary,
                   argv, token, nameIt, operand, outcome, before>>

parseUtility ==
    /\ pc = "parseUtility"
    /\ IF it = end
       THEN UNCHANGED <<utilityName_, it, role>>
       ELSE /\ utilityName_' = IF utilityName_ = <<>> THEN argv[it] ELSE utilityName_
            /\ it' = it + 1
            /\ role' = [role EXCEPT ![it] = "utility"]
    /\ pc' = "parseOptions"
    /\ UNCHANGED <<settings, elsewhere, isTerminated_, options_, operands_, vocabulary,
                   argv, token, nameIt, operand, outcome, before>>

\* Parser::parseTerminator that sets isTerminated_ and leaves the iterator
\* at the terminator.
parseTerminatorPeeks ==
    /\ isTerminated_' = TRUE
    /\ role' = [role EXCEPT ![it] = "terminator"]
    /\ it' = it

\* Parser::parseTerminator when it consumes the token.
parseTerminatorTaken ==
    /\ isTerminated_' = TRUE
    /\ role' = [role EXCEPT ![it] = "terminator"]
    /\ it' = it + 1

\* Parser::parseLongOption without the check of lines 619-622: a value
\* merged into the token of an option that takes none is ignored.
parseLongOptionIgnoresValue ==
    LET tok    == argv[it]
        nameAt == Len(longPrefix_) + 1
        sepAt  == Find(tok, nameAt, longSeparator_)
        name   == SubSeq(tok, nameAt, sepAt - 1)
        o      == getOptionLong(name)
        merged == sepAt # Len(tok) + 1
        value  == IF merged THEN Range(tok, sepAt + 1)
                            ELSE argv[it + 1]
        parsed == ArgParse(options_[o], value)
        done   == ArgDone(IF options_[o].hasValue_ THEN parsed.arg ELSE options_[o])
        used   == IF options_[o].hasValue_ /\ ~merged THEN 2 ELSE 1
    IN  IF o = 0 THEN
            /\ Throw(Error("Unknown option name: ", name))
            /\ it' = it + 1
            /\ role' = [role EXCEPT ![it] = "option"]
            /\ UNCHANGED options_
        ELSE IF options_[o].hasValue_ /\ ~merged /\ it + 1 = end THEN
            /\ Throw(Error("Cannot find value for option: ", tok))
            /\ it' = it + 1
            /\ role' = [role EXCEPT ![it] = "option"]
            /\ UNCHANGED options_
        ELSE IF options_[o].hasValue_ /\ parsed.thrown THEN
            /\ Throw(Error(parsed.message, value))
            /\ it' = it + used
            /\ role' = [role EXCEPT ![it] = "option"]
            /\ UNCHANGED options_
        ELSE
            /\ it' = it + used
            /\ role' = [i \in DOMAIN role |->
                          IF i = it THEN "option"
                          ELSE IF used = 2 /\ i = it + 1 THEN "value"
                          ELSE role[i]]
            /\ IF done.signal
               THEN /\ Throw(Signal(options_[o].shortName_, options_[o].longName_))
                    /\ UNCHANGED options_
               ELSE /\ options_' = [options_ EXCEPT ![o] = done.arg]
                    /\ UNCHANGED <<pc, outcome>>

\* Parser::parseLongOption, entered with predictLongOption true.
parseLongOption ==
    LET tok    == argv[it]
        nameAt == Len(longPrefix_) + 1
        sepAt  == Find(tok, nameAt, longSeparator_)
        name   == SubSeq(tok, nameAt, sepAt - 1)
        o      == getOptionLong(name)
        merged == sepAt # Len(tok) + 1
        value  == IF merged THEN Range(tok, sepAt + 1)
                            ELSE argv[it + 1]
        parsed == ArgParse(options_[o], value)
        done   == ArgDone(IF options_[o].hasValue_ THEN parsed.arg ELSE options_[o])
        used   == IF options_[o].hasValue_ /\ ~merged THEN 2 ELSE 1
    IN  IF o = 0 THEN
            /\ Throw(Error("Unknown option name: ", name))
            /\ it' = it + 1
            /\ role' = [role EXCEPT ![it] = "option"]
            /\ UNCHANGED options_
        ELSE IF options_[o].hasValue_ /\ ~merged /\ it + 1 = end THEN
            /\ Throw(Error("Cannot find value for option: ", tok))
            /\ it' = it + 1
            /\ role' = [role EXCEPT ![it] = "option"]
            /\ UNCHANGED options_
        ELSE IF options_[o].hasValue_ /\ parsed.thrown THEN
            /\ Throw(Error(parsed.message, value))
            /\ it' = it + used
            /\ role' = [role EXCEPT ![it] = "option"]
            /\ UNCHANGED options_
        ELSE IF ~options_[o].hasValue_ /\ merged THEN
            /\ Throw(Error("Unexpected option value: ", tok))
            /\ it' = it + 1
            /\ role' = [role EXCEPT ![it] = "option"]
            /\ UNCHANGED options_
        ELSE
            /\ it' = it + used
            /\ role' = [i \in DOMAIN role |->
                          IF i = it THEN "option"
                          ELSE IF used = 2 /\ i = it + 1 THEN "value"
                          ELSE role[i]]
            /\ IF done.signal
               THEN /\ Throw(Signal(options_[o].shortName_, options_[o].longName_))
                    /\ UNCHANGED options_
               ELSE /\ options_' = [options_ EXCEPT ![o] = done.arg]
                    /\ UNCHANGED <<pc, outcome>>

\* The loop of Parser::parseOptions trying the short cluster before the
\* long option.
parseOptionsShortFirst ==
    /\ pc = "parseOptions"
    /\ IF TerminatorMatches THEN
            /\ parseTerminatorTaken
            /\ pc' = AfterOptions
            /\ UNCHANGED <<options_, token, nameIt, outcome>>
       ELSE IF predictShortOption(it, isTerminated_) THEN
            /\ it' = it + 1
            /\ role' = [role EXCEPT ![it] = "option"]
            /\ token' = it
            /\ nameIt' = 2
            /\ pc' = "parseShortOptions"
            /\ UNCHANGED <<isTerminated_, options_, outcome>>
       ELSE IF predictLongOption(it, isTerminated_) THEN
            /\ parseLongOption
            /\ UNCHANGED <<isTerminated_, token, nameIt>>
       ELSE
            /\ pc' = AfterOptions
            /\ UNCHANGED <<isTerminated_, options_, it, role, token, nameIt, outcome>>
    /\ operand' = 1
    /\ UNCHANGED <<settings, elsewhere, utilityName_, operands_, vocabulary, argv, before>>

\* The loop of Parser::parseOptions catching the Error of a long-name lookup
\* that fails and walking the token as a short-option cluster instead.
parseOptionsRetriesShort ==
    LET name == SubSeq(argv[it], Len(longPrefix_) + 1,
                       Find(argv[it], Len(longPrefix_) + 1, longSeparator_) - 1)
    IN  /\ pc = "parseOptions"
        /\ IF TerminatorMatches THEN
                /\ parseTerminatorTaken
                /\ pc' = AfterOptions
                /\ UNCHANGED <<options_, token, nameIt, outcome>>
           ELSE IF /\ predictLongOption(it, isTerminated_)
                   /\ ~(getOptionLong(name) = 0 /\ predictShortOption(it, isTerminated_)) THEN
                /\ parseLongOption
                /\ UNCHANGED <<isTerminated_, token, nameIt>>
           ELSE IF predictShortOption(it, isTerminated_) THEN
                /\ it' = it + 1
                /\ role' = [role EXCEPT ![it] = "option"]
                /\ token' = it
                /\ nameIt' = 2
                /\ pc' = "parseShortOptions"
                /\ UNCHANGED <<isTerminated_, options_, outcome>>
           ELSE
                /\ pc' = AfterOptions
                /\ UNCHANGED <<isTerminated_, options_, it, role, token, nameIt, outcome>>
        /\ operand' = 1
        /\ UNCHANGED <<settings, elsewhere, utilityName_, operands_, vocabulary, argv, before>>

\* The loop of Parser::parseOptions with a walk of parseShortOptions that
\* leaves the iterator at the token it walked, and a loop that goes on all
\* the same.
parseOptionsKeepsToken ==
    /\ pc = "parseOptions"
    /\ IF TerminatorMatches THEN
            /\ parseTerminatorTaken
            /\ pc' = AfterOptions
            /\ UNCHANGED <<options_, token, nameIt, outcome>>
       ELSE IF predictLongOption(it, isTerminated_) THEN
            /\ parseLongOption
            /\ UNCHANGED <<isTerminated_, token, nameIt>>
       ELSE IF predictShortOption(it, isTerminated_) THEN
            /\ it' = it
            /\ role' = [role EXCEPT ![it] = "option"]
            /\ token' = it
            /\ nameIt' = 2
            /\ pc' = "parseShortOptions"
            /\ UNCHANGED <<isTerminated_, options_, outcome>>
       ELSE
            /\ pc' = AfterOptions
            /\ UNCHANGED <<isTerminated_, options_, it, role, token, nameIt, outcome>>
    /\ operand' = 1
    /\ UNCHANGED <<settings, elsewhere, utilityName_, operands_, vocabulary, argv, before>>

\* One iteration of the loop of Parser::parseOptions.  A short-option
\* token is entered here and walked by parseShortOptions.
parseOptions ==
    /\ pc = "parseOptions"
    /\ IF TerminatorMatches THEN
            /\ parseTerminatorTaken
            /\ pc' = AfterOptions
            /\ UNCHANGED <<options_, token, nameIt, outcome>>
       ELSE IF predictLongOption(it, isTerminated_) THEN
            /\ parseLongOption
            /\ UNCHANGED <<isTerminated_, token, nameIt>>
       ELSE IF predictShortOption(it, isTerminated_) THEN
            /\ it' = it + 1
            /\ role' = [role EXCEPT ![it] = "option"]
            /\ token' = it
            /\ nameIt' = 2
            /\ pc' = "parseShortOptions"
            /\ UNCHANGED <<isTerminated_, options_, outcome>>
       ELSE
            /\ pc' = AfterOptions
            /\ UNCHANGED <<isTerminated_, options_, it, role, token, nameIt, outcome>>
    /\ operand' = 1
    /\ UNCHANGED <<settings, elsewhere, utilityName_, operands_, vocabulary, argv, before>>


\* Parser::parseShortOptions calling done() before it looks for the value
\* in the next token.
parseShortOptionsDoneFirst ==
    LET tok    == argv[token]
        name   == tok[nameIt]
        o      == getOptionShort(name)
        merged == nameIt + 1 # Len(tok) + 1
        value  == IF merged THEN Range(tok, nameIt + 1)
                            ELSE argv[it]
        parsed == ArgParse(options_[o], value)
        done   == ArgDone(IF options_[o].hasValue_ THEN parsed.arg ELSE options_[o])
        taken  == options_[o].hasValue_ /\ ~merged
    IN  /\ pc = "parseShortOptions"
        /\ IF nameIt = Len(tok) + 1 THEN
                /\ pc' = "parseOptions"
                /\ UNCHANGED <<options_, it, role, nameIt, outcome>>
           ELSE IF o = 0 THEN
                /\ Throw(Error("Unknown option name: ", <<name>>))
                /\ nameIt' = nameIt + 1
                /\ UNCHANGED <<options_, it, role>>
           ELSE IF taken /\ it = end THEN
                /\ Throw(Error("Cannot find value for option: ", tok))
                /\ nameIt' = nameIt + 1
                /\ options_' = [options_ EXCEPT ![o].isDone_ = TRUE]
                /\ UNCHANGED <<it, role>>
           ELSE IF options_[o].hasValue_ /\ parsed.thrown THEN
                /\ Throw(Error(parsed.message, value))
                /\ nameIt' = nameIt + 1
                /\ it' = IF taken THEN it + 1 ELSE it
                /\ UNCHANGED <<options_, role>>
           ELSE
                /\ nameIt' = IF options_[o].hasValue_ THEN Len(tok) + 1 ELSE nameIt + 1
                /\ it' = IF taken THEN it + 1 ELSE it
                /\ role' = IF taken THEN [role EXCEPT ![it] = "value"] ELSE role
                /\ IF done.signal
                   THEN /\ Throw(Signal(options_[o].shortName_, options_[o].longName_))
                        /\ UNCHANGED options_
                   ELSE /\ options_' = [options_ EXCEPT ![o] = done.arg]
                        /\ UNCHANGED <<pc, outcome>>
        /\ UNCHANGED <<settings, elsewhere, isTerminated_, utilityName_, operands_, vocabulary,
                       argv, token, operand, before>>

\* Parser::parseShortOptions with a walk that goes on behind a merged value.
parseShortOptionsWalksOn ==
    LET tok    == argv[token]
        name   == tok[nameIt]
        o      == getOptionShort(name)
        merged == nameIt + 1 # Len(tok) + 1
        value  == IF merged THEN Range(tok, nameIt + 1)
                            ELSE argv[it]
        parsed == ArgParse(options_[o], value)
        done   == ArgDone(IF options_[o].hasValue_ THEN parsed.arg ELSE options_[o])
        taken  == options_[o].hasValue_ /\ ~merged
    IN  /\ pc = "parseShortOptions"
        /\ IF nameIt = Len(tok) + 1 THEN
                /\ pc' = "parseOptions"
                /\ UNCHANGED <<options_, it, role, nameIt, outcome>>
           ELSE IF o = 0 THEN
                /\ Throw(Error("Unknown option name: ", <<name>>))
                /\ nameIt' = nameIt + 1
                /\ UNCHANGED <<options_, it, role>>
           ELSE IF taken /\ it = end THEN
                /\ Throw(Error("Cannot find value for option: ", tok))
                /\ nameIt' = nameIt + 1
                /\ UNCHANGED <<options_, it, role>>
           ELSE IF options_[o].hasValue_ /\ parsed.thrown THEN
                /\ Throw(Error(parsed.message, value))
                /\ nameIt' = nameIt + 1
                /\ it' = IF taken THEN it + 1 ELSE it
                /\ UNCHANGED <<options_, role>>
           ELSE
                /\ nameIt' = nameIt + 1
                /\ it' = IF taken THEN it + 1 ELSE it
                /\ role' = IF taken THEN [role EXCEPT ![it] = "value"] ELSE role
                /\ IF done.signal
                   THEN /\ Throw(Signal(options_[o].shortName_, options_[o].longName_))
                        /\ UNCHANGED options_
                   ELSE /\ options_' = [options_ EXCEPT ![o] = done.arg]
                        /\ UNCHANGED <<pc, outcome>>
        /\ UNCHANGED <<settings, elsewhere, isTerminated_, utilityName_, operands_, vocabulary,
                       argv, token, operand, before>>

\* Parser::parseShortOptions refusing a next token that is the terminator
\* or looks like a cluster as the value of an option.
parseShortOptionsRefusesOptions ==
    LET tok    == argv[token]
        name   == tok[nameIt]
        o      == getOptionShort(name)
        merged == nameIt + 1 # Len(tok) + 1
        value  == IF merged THEN Range(tok, nameIt + 1)
                            ELSE argv[it]
        parsed == ArgParse(options_[o], value)
        done   == ArgDone(IF options_[o].hasValue_ THEN parsed.arg ELSE options_[o])
        taken  == options_[o].hasValue_ /\ ~merged
    IN  /\ pc = "parseShortOptions"
        /\ IF nameIt = Len(tok) + 1 THEN
                /\ pc' = "parseOptions"
                /\ UNCHANGED <<options_, it, role, nameIt, outcome>>
           ELSE IF o = 0 THEN
                /\ Throw(Error("Unknown option name: ", <<name>>))
                /\ nameIt' = nameIt + 1
                /\ UNCHANGED <<options_, it, role>>
           ELSE IF taken /\ (it = end \/ TerminatorMatches
                             \/ predictShortOption(it, isTerminated_)) THEN
                /\ Throw(Error("Cannot find value for option: ", tok))
                /\ nameIt' = nameIt + 1
                /\ UNCHANGED <<options_, it, role>>
           ELSE IF options_[o].hasValue_ /\ parsed.thrown THEN
                /\ Throw(Error(parsed.message, value))
                /\ nameIt' = nameIt + 1
                /\ it' = IF taken THEN it + 1 ELSE it
                /\ UNCHANGED <<options_, role>>
           ELSE
                /\ nameIt' = IF options_[o].hasValue_ THEN Len(tok) + 1 ELSE nameIt + 1
                /\ it' = IF taken THEN it + 1 ELSE it
                /\ role' = IF taken THEN [role EXCEPT ![it] = "value"] ELSE role
                /\ IF done.signal
                   THEN /\ Throw(Signal(options_[o].shortName_, options_[o].longName_))
                        /\ UNCHANGED options_
                   ELSE /\ options_' = [options_ EXCEPT ![o] = done.arg]
                        /\ UNCHANGED <<pc, outcome>>
        /\ UNCHANGED <<settings, elsewhere, isTerminated_, utilityName_, operands_, vocabulary,
                       argv, token, operand, before>>

\* The loop of Parser::parseShortOptions with isDone_ set before
\* option->parse() is called, so that a conversion that throws leaves the
\* option done.
parseShortOptionsDoneOnFailure ==
    LET tok    == argv[token]
        name   == tok[nameIt]
        o      == getOptionShort(name)
        merged == nameIt + 1 # Len(tok) + 1
        value  == IF merged THEN Range(tok, nameIt + 1)
                            ELSE argv[it]
        parsed == ArgParse(options_[o], value)
        done   == ArgDone(IF options_[o].hasValue_ THEN parsed.arg ELSE options_[o])
        taken  == options_[o].hasValue_ /\ ~merged
    IN  /\ pc = "parseShortOptions"
        /\ IF nameIt = Len(tok) + 1 THEN
                /\ pc' = "parseOptions"
                /\ UNCHANGED <<options_, it, role, nameIt, outcome>>
           ELSE IF o = 0 THEN
                /\ Throw(Error("Unknown option name: ", <<name>>))
                /\ nameIt' = nameIt + 1
                /\ UNCHANGED <<options_, it, role>>
           ELSE IF taken /\ it = end THEN
                /\ Throw(Error("Cannot find value for option: ", tok))
                /\ nameIt' = nameIt + 1
                /\ UNCHANGED <<options_, it, role>>
           ELSE IF options_[o].hasValue_ /\ parsed.thrown THEN
                /\ Throw(Error(parsed.message, value))
                /\ nameIt' = nameIt + 1
                /\ it' = IF taken THEN it + 1 ELSE it
                /\ options_' = [options_ EXCEPT ![o].isDone_ = TRUE]
                /\ UNCHANGED role
           ELSE
                /\ nameIt' = IF options_[o].hasValue_ THEN Len(tok) + 1 ELSE nameIt + 1
                /\ it' = IF taken THEN it + 1 ELSE it
                /\ role' = IF taken THEN [role EXCEPT ![it] = "value"] ELSE role
                /\ IF done.signal
                   THEN /\ Throw(Signal(options_[o].shortName_, options_[o].longName_))
                        /\ UNCHANGED options_
                   ELSE /\ options_' = [options_ EXCEPT ![o] = done.arg]
                        /\ UNCHANGED <<pc, outcome>>
        /\ UNCHANGED <<settings, elsewhere, isTerminated_, utilityName_, operands_, vocabulary,
                       argv, token, operand, before>>

\* One iteration of the while loop of Parser::parseShortOptions; the token
\* is argv[token] and nameIt the index of its next character.
parseShortOptions ==
    LET tok    == argv[token]
        name   == tok[nameIt]
        o      == getOptionShort(name)
        merged == nameIt + 1 # Len(tok) + 1
        value  == IF merged THEN Range(tok, nameIt + 1)
                            ELSE argv[it]
        parsed == ArgParse(options_[o], value)
        done   == ArgDone(IF options_[o].hasValue_ THEN parsed.arg ELSE options_[o])
        taken  == options_[o].hasValue_ /\ ~merged
    IN  /\ pc = "parseShortOptions"
        /\ IF nameIt = Len(tok) + 1 THEN
                /\ pc' = "parseOptions"
                /\ UNCHANGED <<options_, it, role, nameIt, outcome>>
           ELSE IF o = 0 THEN
                /\ Throw(Error("Unknown option name: ", <<name>>))
                /\ nameIt' = nameIt + 1
                /\ UNCHANGED <<options_, it, role>>
           ELSE IF taken /\ it = end THEN
                /\ Throw(Error("Cannot find value for option: ", tok))
                /\ nameIt' = nameIt + 1
                /\ UNCHANGED <<options_, it, role>>
           ELSE IF options_[o].hasValue_ /\ parsed.thrown THEN
                /\ Throw(Error(parsed.message, value))
                /\ nameIt' = nameIt + 1
                /\ it' = IF taken THEN it + 1 ELSE it
                /\ UNCHANGED <<options_, role>>
           ELSE
                /\ nameIt' = IF options_[o].hasValue_ THEN Len(tok) + 1 ELSE nameIt + 1
                /\ it' = IF taken THEN it + 1 ELSE it
                /\ role' = IF taken THEN [role EXCEPT ![it] = "value"] ELSE role
                /\ IF done.signal
                   THEN /\ Throw(Signal(options_[o].shortName_, options_[o].longName_))
                        /\ UNCHANGED options_
                   ELSE /\ options_' = [options_ EXCEPT ![o] = done.arg]
                        /\ UNCHANGED <<pc, outcome>>
        /\ UNCHANGED <<settings, elsewhere, isTerminated_, utilityName_, operands_, vocabulary,
                       argv, token, operand, before>>

\* The loop of parseOperands staying at an operand that is not the last.
NextOperandStays ==
    IF operand = Len(operands_)
    THEN /\ pc' = "parseTerminator"
         /\ UNCHANGED operand
    ELSE UNCHANGED <<operand, pc>>

\* After the loop of parseOperandContent is left for operands_[operand]:
\* the loop of parseOperands goes to the next operand, or parseAll goes on.
NextOperand ==
    IF operand = Len(operands_)
    THEN /\ pc' = "parseTerminator"
         /\ UNCHANGED operand
    ELSE /\ operand' = operand + 1
         /\ UNCHANGED pc

\* Parser::parseOperands with a conversion error that puts the bound
\* variables back to what they were when parse() was called.
parseOperandsRollsBack ==
    LET at     == IF TerminatorMatches THEN it + 1 ELSE it
        ended  == isTerminated_ \/ TerminatorMatches
        tok    == argv[at]
        parsed == ArgParse(operands_[operand], tok)
        done   == ArgDone(parsed.arg)
        roles  == IF TerminatorMatches THEN [role EXCEPT ![it] = "terminator"] ELSE role
    IN  /\ pc = "parseOperands"
        /\ isTerminated_' = ended
        /\ IF at = end THEN
                /\ it' = at
                /\ role' = roles
                /\ NextOperand
                /\ UNCHANGED <<operands_, options_, outcome>>
           ELSE IF predictLongOption(at, ended) \/ predictShortOption(at, ended) THEN
                /\ Throw(Error("Unexpected option: ", tok))
                /\ it' = at
                /\ role' = roles
                /\ UNCHANGED <<operands_, options_, operand>>
           ELSE IF parsed.thrown THEN
                /\ Throw(Error(parsed.message, tok))
                /\ it' = at + 1
                /\ role' = roles
                /\ operands_' = before.operands
                /\ options_' = before.options
                /\ UNCHANGED operand
           ELSE
                /\ it' = at + 1
                /\ role' = [roles EXCEPT ![at] = "operand"]
                /\ operands_' = [operands_ EXCEPT ![operand] = done.arg]
                /\ outcome' = outcome
                /\ UNCHANGED options_
                /\ IF operands_[operand].isSink_
                   THEN UNCHANGED <<pc, operand>>
                   ELSE NextOperand
        /\ UNCHANGED <<settings, elsewhere, utilityName_, vocabulary, argv, token,
                       nameIt, before>>

\* Parser::parseOperands with a sink that leaves its loop when it meets
\* the terminator.
parseOperandsSinkStops ==
    LET at     == IF TerminatorMatches THEN it + 1 ELSE it
        ended  == isTerminated_ \/ TerminatorMatches
        tok    == argv[at]
        parsed == ArgParse(operands_[operand], tok)
        done   == ArgDone(parsed.arg)
        roles  == IF TerminatorMatches THEN [role EXCEPT ![it] = "terminator"] ELSE role
    IN  /\ pc = "parseOperands"
        /\ isTerminated_' = ended
        /\ IF TerminatorMatches /\ operands_[operand].isSink_ THEN
                /\ it' = at
                /\ role' = roles
                /\ NextOperand
                /\ UNCHANGED <<operands_, outcome>>
           ELSE IF at = end THEN
                /\ it' = at
                /\ role' = roles
                /\ NextOperand
                /\ UNCHANGED <<operands_, outcome>>
           ELSE IF predictLongOption(at, ended) \/ predictShortOption(at, ended) THEN
                /\ Throw(Error("Unexpected option: ", tok))
                /\ it' = at
                /\ role' = roles
                /\ UNCHANGED <<operands_, operand>>
           ELSE IF parsed.thrown THEN
                /\ Throw(Error(parsed.message, tok))
                /\ it' = at + 1
                /\ role' = roles
                /\ UNCHANGED <<operands_, operand>>
           ELSE
                /\ it' = at + 1
                /\ role' = [roles EXCEPT ![at] = "operand"]
                /\ operands_' = [operands_ EXCEPT ![operand] = done.arg]
                /\ outcome' = outcome
                /\ IF operands_[operand].isSink_
                   THEN UNCHANGED <<pc, operand>>
                   ELSE NextOperand
        /\ UNCHANGED <<settings, elsewhere, utilityName_, options_, vocabulary, argv,
                       token, nameIt, before>>

\* Parser::parseOperands going back to the options stage when it meets a
\* token that is predicted as an option.
parseOperandsReentersOptions ==
    LET at     == IF TerminatorMatches THEN it + 1 ELSE it
        ended  == isTerminated_ \/ TerminatorMatches
        tok    == argv[at]
        parsed == ArgParse(operands_[operand], tok)
        done   == ArgDone(parsed.arg)
        roles  == IF TerminatorMatches THEN [role EXCEPT ![it] = "terminator"] ELSE role
    IN  /\ pc = "parseOperands"
        /\ isTerminated_' = ended
        /\ IF at = end THEN
                /\ it' = at
                /\ role' = roles
                /\ NextOperand
                /\ UNCHANGED <<operands_, outcome>>
           ELSE IF predictLongOption(at, ended) \/ predictShortOption(at, ended) THEN
                /\ pc' = "parseOptions"
                /\ outcome' = outcome
                /\ it' = at
                /\ role' = roles
                /\ UNCHANGED <<operands_, operand>>
           ELSE IF parsed.thrown THEN
                /\ Throw(Error(parsed.message, tok))
                /\ it' = at + 1
                /\ role' = roles
                /\ UNCHANGED <<operands_, operand>>
           ELSE
                /\ it' = at + 1
                /\ role' = [roles EXCEPT ![at] = "operand"]
                /\ operands_' = [operands_ EXCEPT ![operand] = done.arg]
                /\ outcome' = outcome
                /\ IF operands_[operand].isSink_
                   THEN UNCHANGED <<pc, operand>>
                   ELSE NextOperand
        /\ UNCHANGED <<settings, elsewhere, utilityName_, options_, vocabulary, argv,
                       token, nameIt, before>>

\* Parser::parseOperands leaving the loop of a sink after one token.
parseOperandsSinkTakesOne ==
    LET at     == IF TerminatorMatches THEN it + 1 ELSE it
        ended  == isTerminated_ \/ TerminatorMatches
        tok    == argv[at]
        parsed == ArgParse(operands_[operand], tok)
        done   == ArgDone(parsed.arg)
        roles  == IF TerminatorMatches THEN [role EXCEPT ![it] = "terminator"] ELSE role
    IN  /\ pc = "parseOperands"
        /\ isTerminated_' = ended
        /\ IF at = end THEN
                /\ it' = at
                /\ role' = roles
                /\ NextOperand
                /\ UNCHANGED <<operands_, outcome>>
           ELSE IF predictLongOption(at, ended) \/ predictShortOption(at, ended) THEN
                /\ Throw(Error("Unexpected option: ", tok))
                /\ it' = at
                /\ role' = roles
                /\ UNCHANGED <<operands_, operand>>
           ELSE IF parsed.thrown THEN
                /\ Throw(Error(parsed.message, tok))
                /\ it' = at + 1
                /\ role' = roles
                /\ UNCHANGED <<operands_, operand>>
           ELSE
                /\ it' = at + 1
                /\ role' = [roles EXCEPT ![at] = "operand"]
                /\ operands_' = [operands_ EXCEPT ![operand] = done.arg]
                /\ outcome' = outcome
                /\ NextOperand
        /\ UNCHANGED <<settings, elsewhere, utilityName_, options_, vocabulary, argv,
                       token, nameIt, before>>

\* One iteration of the while loop of Parser::parseOperandContent, called
\* by Parser::parseOperands for operands_[operand].
parseOperands ==
    LET at     == IF TerminatorMatches THEN it + 1 ELSE it
        ended  == isTerminated_ \/ TerminatorMatches
        tok    == argv[at]
        parsed == ArgParse(operands_[operand], tok)
        done   == ArgDone(parsed.arg)
        roles  == IF TerminatorMatches THEN [role EXCEPT ![it] = "terminator"] ELSE role
    IN  /\ pc = "parseOperands"
        /\ isTerminated_' = ended
        /\ IF at = end THEN
                /\ it' = at
                /\ role' = roles
                /\ NextOperand
                /\ UNCHANGED <<operands_, outcome>>
           ELSE IF predictLongOption(at, ended) \/ predictShortOption(at, ended) THEN
                /\ Throw(Error("Unexpected option: ", tok))
                /\ it' = at
                /\ role' = roles
                /\ UNCHANGED <<operands_, operand>>
           ELSE IF parsed.thrown THEN
                /\ Throw(Error(parsed.message, tok))
                /\ it' = at + 1
                /\ role' = roles
                /\ UNCHANGED <<operands_, operand>>
           ELSE
                /\ it' = at + 1
                /\ role' = [roles EXCEPT ![at] = "operand"]
                /\ operands_' = [operands_ EXCEPT ![operand] = done.arg]
                /\ outcome' = outcome
                /\ IF operands_[operand].isSink_
                   THEN UNCHANGED <<pc, operand>>
                   ELSE NextOperand
        /\ UNCHANGED <<settings, elsewhere, utilityName_, options_, vocabulary, argv,
                       token, nameIt, before>>

\* The call of Parser::parseTerminator that parseAll makes after the operands.
parseTerminator ==
    /\ pc = "parseTerminator"
    /\ IF TerminatorMatches
       THEN parseTerminatorTaken
       ELSE UNCHANGED <<isTerminated_, role, it>>
    /\ pc' = "checkEnd"
    /\ UNCHANGED <<settings, elsewhere, utilityName_, options_, operands_, vocabulary,
                   argv, token, nameIt, operand, outcome, before>>

\* parseAll calling checkRequired before checkEnd.
checkEndAfterRequired ==
    /\ pc = "checkEnd"
    /\ IF checkRequiredOf(options_) # Success
       THEN Throw(checkRequiredOf(options_))
       ELSE IF checkRequiredOf(operands_) # Success
       THEN Throw(checkRequiredOf(operands_))
       ELSE IF it # end
       THEN Throw(Error("Unexpected argument: ", argv[it]))
       ELSE /\ pc' = "checkRequired"
            /\ UNCHANGED outcome
    /\ UNCHANGED <<settings, elsewhere, isTerminated_, utilityName_, options_, operands_,
                   vocabulary, argv, it, token, nameIt, operand, role, before>>

\* Parser::checkEnd naming the last token instead of *it.
checkEndLast ==
    /\ pc = "checkEnd"
    /\ IF it # end
       THEN Throw(Error("Unexpected argument: ", argv[Len(argv)]))
       ELSE /\ pc' = "checkRequired"
            /\ UNCHANGED outcome
    /\ UNCHANGED <<settings, elsewhere, isTerminated_, utilityName_, options_, operands_,
                   vocabulary, argv, it, token, nameIt, operand, role, before>>

checkEnd ==
    /\ pc = "checkEnd"
    /\ IF it # end
       THEN Throw(Error("Unexpected argument: ", argv[it]))
       ELSE /\ pc' = "checkRequired"
            /\ UNCHANGED outcome
    /\ UNCHANGED <<settings, elsewhere, isTerminated_, utilityName_, options_, operands_,
                   vocabulary, argv, it, token, nameIt, operand, role, before>>

\* checkRequired(options_); checkRequired(operands_); and the return of parse().
checkRequired ==
    /\ pc = "checkRequired"
    /\ outcome' = IF checkRequiredOf(options_) # Success
                  THEN checkRequiredOf(options_)
                  ELSE checkRequiredOf(operands_)
    /\ pc' = "done"
    /\ UNCHANGED <<settings, elsewhere, isTerminated_, utilityName_, options_, operands_,
                   vocabulary, argv, it, token, nameIt, operand, role, before>>


-----------------------------------------------------------------------------
(* Help: operator<< and Parser::writeHelp.  An output stream is the        *)
(* sequence of the characters written to it.                               *)

\* Number of times the program writes the help of its parser.
MaxWrites == 2

\* std::string(n, ' ')
Spaces(n) == [k \in 1..n |-> " "]

\* Arg::getDefaultValue with ValueArg::doGetDefaultValue reading the bound
\* variable instead of the copy made at the declaration.
getDefaultValueOfTarget(arg) ==
    IF arg.isRequired_ THEN <<>>
    ELSE IF arg.kind = "value" THEN toString(arg.T, arg.target_)
    ELSE <<>>

\* Arg::getDefaultValue -> doGetDefaultValue: ValueArg renders default_, the
\* copy of the bound variable made when the argument was declared; the
\* other argument types return the empty string.
getDefaultValue(arg) ==
    IF arg.isRequired_ THEN <<>>
    ELSE IF arg.kind = "value" THEN toString(arg.T, arg.default_)
    ELSE <<>>

\* Parser::tokenize: words separated by spaces, each newline a token.
RECURSIVE tokenizeFrom(_, _)
tokenizeFrom(text, i) ==
    IF i > Len(text) THEN <<>>
    ELSE IF text[i] = " " THEN tokenizeFrom(text, i + 1)
    ELSE IF text[i] = "\n" THEN <<<<"\n">>>> \o tokenizeFrom(text, i + 1)
    ELSE LET stops == {k \in i..Len(text) : text[k] \in {" ", "\n"}}
             stop  == IF stops = {} THEN Len(text) + 1
                      ELSE CHOOSE k \in stops : \A j \in stops : k <= j
         IN  <<SubSeq(text, i, stop - 1)>> \o tokenizeFrom(text, stop)

tokenize(text) == tokenizeFrom(text, 1)

\* The body of the loop of Parser::writeWrapped that breaks on overflow
\* wherever the line stands, also at or before the hanging indent.
writeWrappedTokenAnywhere(w, tok, hangingIndent) ==
    LET isNewline  == tok = <<"\n">>
        isOverflow == w.pos + w.spaces + Len(tok) > helpWidth_
        broken     == isNewline \/ isOverflow
        b == IF broken
             THEN [out |-> Append(w.out, "\n"), pos |-> 0, spaces |-> hangingIndent]
             ELSE w
    IN  IF isNewline THEN b
        ELSE [out    |-> b.out \o Spaces(b.spaces) \o tok,
              pos    |-> b.pos + b.spaces + Len(tok),
              spaces |-> 1]

\* The body of the loop of Parser::writeWrapped that breaks before explicit
\* newlines only and never because of the help width.
writeWrappedTokenNoWrap(w, tok, hangingIndent) ==
    LET isNewline  == tok = <<"\n">>
        b == IF isNewline
             THEN [out |-> Append(w.out, "\n"), pos |-> 0, spaces |-> hangingIndent]
             ELSE w
    IN  IF isNewline THEN b
        ELSE [out    |-> b.out \o Spaces(b.spaces) \o tok,
              pos    |-> b.pos + b.spaces + Len(tok),
              spaces |-> 1]

\* The body of the loop of Parser::writeWrapped for one token.  w holds the
\* stream and the locals pos and spaces.
writeWrappedToken(w, tok, hangingIndent) ==
    LET isNewline  == tok = <<"\n">>
        isOverflow == w.pos + w.spaces + Len(tok) > helpWidth_
        broken     == isNewline \/ (isOverflow /\ w.pos > hangingIndent)
        b == IF broken
             THEN [out |-> Append(w.out, "\n"), pos |-> 0, spaces |-> hangingIndent]
             ELSE w
    IN  IF isNewline THEN b
        ELSE [out    |-> b.out \o Spaces(b.spaces) \o tok,
              pos    |-> b.pos + b.spaces + Len(tok),
              spaces |-> 1]

RECURSIVE writeWrappedFrom(_, _, _, _)
writeWrappedFrom(w, tokens, i, hangingIndent) ==
    IF i > Len(tokens) THEN w
    ELSE writeWrappedFrom(writeWrappedToken(w, tokens[i], hangingIndent),
                          tokens, i + 1, hangingIndent)

\* Parser::writeWrapped: the stream after the call.
writeWrapped(out, tokens, initialPos, hangingIndent) ==
    writeWrappedFrom([out |-> out, pos |-> initialPos, spaces |-> 0],
                     tokens, 1, hangingIndent).out

\* Parser::writeParagraph
writeParagraph(out, paragraph) ==
    IF paragraph = <<>> THEN out
    ELSE writeWrapped(out, tokenize(paragraph), 0, 0) \o <<"\n", "\n">>

\* The token Parser::pushUsageTokens pushes for one argument.
usageToken(arg) ==
    LET name  == IF arg.shortName_ # NUL THEN <<shortPrefix_, arg.shortName_>>
                 ELSE IF arg.longName_ # <<>> THEN longPrefix_ \o arg.longName_
                 ELSE <<>>
        value == IF arg.hasValue_
                 THEN (IF name # <<>> THEN Append(name, " ") ELSE name)
                         \o arg.valueName_
                 ELSE name
        whole == IF ~arg.isRequired_ THEN <<"[">> \o value \o <<"]">> ELSE value
    IN  IF arg.isSink_ THEN whole \o <<".", ".", ".">> ELSE whole

\* Parser::pushUsageTokens
pushUsageTokens(tokens, args) ==
    tokens \o [i \in 1..Len(args) |-> usageToken(args[i])]

\* The tokens Parser::writeUsage collects.
usageTokens ==
    LET name     == IF utilityName_ # <<>> THEN <<utilityName_>> ELSE <<>>
        options  == IF optionsUsage_ # <<>> THEN Append(name, optionsUsage_)
                    ELSE pushUsageTokens(name, options_)
    IN  IF operandsUsage_ # <<>> THEN Append(options, operandsUsage_)
        ELSE pushUsageTokens(options, operands_)

\* Parser::writeUsage
writeUsage(out) ==
    IF usageTitle_ = <<>> THEN out
    ELSE writeWrapped(out \o usageTitle_ \o <<"\n">> \o Spaces(helpIndent_),
                      usageTokens, helpIndent_, helpIndent_ * 2)
            \o <<"\n", "\n">>

\* Parser::hasAnyShortName
hasAnyShortName(args) == \E i \in 1..Len(args) : args[i].shortName_ # NUL

\* The Entry Parser::writeGlossary builds for one argument: the term and
\* the tokens of the description, with the default value as last token.
Entry(arg, hasAnyShort) ==
    LET short == IF ~hasAnyShort THEN <<>>
                 ELSE IF arg.shortName_ = NUL THEN <<" ", " ">>
                 ELSE <<shortPrefix_, arg.shortName_>>
        long  == IF arg.longName_ = <<>> THEN short
                 ELSE short
                        \o (IF ~hasAnyShort THEN <<>>
                            ELSE IF arg.shortName_ # NUL THEN <<",", " ">>
                            ELSE <<" ", " ">>)
                        \o longPrefix_ \o arg.longName_
        term  == IF arg.hasValue_
                 THEN (IF long # <<>> THEN Append(long, " ") ELSE long)
                         \o arg.valueName_
                 ELSE long
        value == getDefaultValue(arg)
    IN  [term        |-> term,
         description |->
            IF defaultIntro_ # <<>> /\ value # <<>>
            THEN Append(tokenize(arg.description_),
                        <<"(">> \o defaultIntro_ \o value \o <<")">>)
            ELSE tokenize(arg.description_)]

\* The entries of a glossary and the column its descriptions start at.
Entries(args) == [i \in 1..Len(args) |-> Entry(args[i], hasAnyShortName(args))]

Tab(args) ==
    LET sizes == {Len(Entries(args)[i].term) : i \in 1..Len(args)} \cup {0}
    IN  helpIndent_ + (CHOOSE m \in sizes : \A n \in sizes : m >= n) + helpIndent_

RECURSIVE writeEntries(_, _, _, _)
writeEntries(out, entries, i, tab) ==
    IF i > Len(entries) THEN out
    ELSE writeEntries(
            Append(writeWrapped(out \o Spaces(helpIndent_) \o entries[i].term
                                    \o Spaces(tab - helpIndent_ - Len(entries[i].term)),
                                entries[i].description, tab, tab),
                   "\n"),
            entries, i + 1, tab)

\* Parser::writeGlossary
writeGlossary(out, title, args) ==
    IF title = <<>> \/ args = <<>> THEN out
    ELSE Append(writeEntries(out \o title \o <<"\n">>, Entries(args), 1, Tab(args)),
                "\n")

\* operator<< -> Parser::writeHelp, which writes and then forgets the
\* prolog.
writeHelpOnce ==
    /\ pc \in {"idle", "done"}
    /\ stream.count < MaxWrites
    /\ stream' =
          [at     |-> pc,
           count  |-> stream.count + 1,
           flags  |-> stream.flags,
           locale |-> stream.locale,
           text   |->
              writeParagraph(
                 writeGlossary(
                    writeGlossary(
                       writeUsage(
                          writeParagraph(<<>>, helpProlog_)),
                       optionsTitle_, options_),
                    operandsTitle_, operands_),
                 helpEpilog_)]
    /\ helpProlog_' = <<>>
    /\ UNCHANGED <<parserVars, codec, wrap, helpEpilog_, usageTitle_, optionsTitle_,
                   operandsTitle_, optionsUsage_, operandsUsage_, defaultIntro_,
                   helpWidth_, helpIndent_>>

\* operator<< -> Parser::writeHelp, which writes the glossary of the
\* operands before the glossary of the options.
writeHelpOperandsFirst ==
    /\ pc \in {"idle", "done"}
    /\ stream.count < MaxWrites
    /\ stream' =
          [at     |-> pc,
           count  |-> stream.count + 1,
           flags  |-> stream.flags,
           locale |-> stream.locale,
           text   |->
              writeParagraph(
                 writeGlossary(
                    writeGlossary(
                       writeUsage(
                          writeParagraph(<<>>, helpProlog_)),
                       operandsTitle_, operands_),
                    optionsTitle_, options_),
                 helpEpilog_)]
    /\ UNCHANGED <<parserVars, codec, helpSettings, wrap>>

\* operator<< -> Parser::writeHelp, which lists in the glossary only the
\* options that no parse call has completed.
writeHelpHidesDone ==
    /\ pc \in {"idle", "done"}
    /\ stream.count < MaxWrites
    /\ stream' =
          [at     |-> pc,
           count  |-> stream.count + 1,
           flags  |-> stream.flags,
           locale |-> stream.locale,
           text   |->
              writeParagraph(
                 writeGlossary(
                    writeGlossary(
                       writeUsage(
                          writeParagraph(<<>>, helpProlog_)),
                       optionsTitle_,
                       SelectSeq(options_, LAMBDA arg : ~arg.isDone_)),
                    operandsTitle_, operands_),
                 helpEpilog_)]
    /\ UNCHANGED <<parserVars, codec, helpSettings, wrap>>

\* operator<< -> Parser::writeHelp, on a stream that was empty: prolog,
\* usage, glossary of the options, glossary of the operands, epilog.  The
\* program writes the help before it parses or after parse() has returned
\* or thrown.
writeHelp ==
    /\ pc \in {"idle", "done"}
    /\ stream.count < MaxWrites
    /\ stream' =
          [at     |-> pc,
           count  |-> stream.count + 1,
           flags  |-> stream.flags,
           locale |-> stream.locale,
           text   |->
              writeParagraph(
                 writeGlossary(
                    writeGlossary(
                       writeUsage(
                          writeParagraph(<<>>, helpProlog_)),
                       optionsTitle_, options_),
                    operandsTitle_, operands_),
                 helpEpilog_)]
    /\ UNCHANGED <<parserVars, codec, helpSettings, wrap>>

-----------------------------------------------------------------------------
(* Programs: the parsers an embedding program declares before it parses,   *)
(* each with the tokens its command line is drawn from.                    *)

\* Boolean options and a signal (test "boolean option", test "signal").
FlagsProgram(b, required) ==
    [parser |->
        addSignal(
        addOption(
        addOption(
        addOption(Parser, FALSE, "a", <<>>, <<>>, FALSE),
                  b, NUL, <<"b", "b">>, <<>>, FALSE),
                  FALSE, "c", <<"c", "c">>, <<>>, required),
                  "h", <<"h", "h">>, <<>>),
     first |-> {<<"p">>},
     rest  |-> {<<"-", "a">>, <<"-", "-", "b", "b">>, <<"-", "-", "c", "c">>,
                <<"-", "a", "c">>, <<"-", "a", "h">>, <<"-", "h">>,
                <<"-", "-", "h", "h">>, <<"-", "-">>, <<"-", "z">>,
                <<"-", "-", "z", "z">>, <<"-", "-", "h", "h", "=", "x">>}]

\* An integer option and an integer operand next to a boolean option and a
\* signal (test "int8 value", test "signal").
NumbersProgram ==
    [parser |->
        addSignal(
        addOperand(
        addOptionT(
        addOption(Parser, FALSE, "a", <<>>, <<>>, FALSE),
                  "int8", Integer(FALSE, <<1>>), "i", <<>>, <<>>, <<>>, FALSE),
                  "int8", Integer(FALSE, <<1>>), <<"N">>, <<>>, FALSE),
                  "h", <<"h", "h">>, <<>>),
     first |-> {<<"p">>},
     rest  |-> {<<"-", "a">>, <<"-", "i">>, <<"1", "2", "7">>, <<"1", "2", "8">>,
                <<"-", "a", "i", "5">>, <<"-", "a", "i", "x">>, <<"-", "a", "h">>,
                <<"7">>, <<"x">>}]

\* Value options (test "value option", test "error messages").
ValuesProgram(required) ==
    [parser |->
        addOption(
        addOptionT(Parser, "string", <<"d">>, "v", <<"v", "v">>, <<"V">>, <<>>, required),
                  FALSE, "a", <<"a", "a">>, <<>>, FALSE),
     first |-> {<<"p">>},
     rest  |-> {<<"-", "v">>, <<"-", "-", "v", "v">>,
                <<"-", "-", "v", "v", "=", "x">>, <<"-", "-", "v", "v", "=">>,
                <<"-", "-", "v", "v", "=", "=">>, <<"-", "v", "a">>, <<"-", "a", "v">>, <<"x">>,
                <<"-", "-", "=", "x">>, <<"-", "-", "a", "a", "=", "x">>,
                <<"-", "-">>, <<"-", "a">>}]

\* Operands and a sink (test "operand", test "operand sink"): one value
\* operand, one value operand and a sink, or a sink alone.
OperandsProgram(required, shape) ==
    LET p == addOption(Parser, FALSE, "s", <<"s", "s">>, <<>>, FALSE)
        q == IF shape = "sink" THEN p
             ELSE addOperand(p, "string", <<"o">>, <<"O">>, <<>>, required)
    IN  [parser |-> IF shape = "operand" THEN q
                    ELSE addOperandSink(q, "string", <<>>, <<"K">>, <<>>, required),
         first |-> {<<"p">>},
         rest  |-> {<<"-", "-">>, <<"-">>, <<"x">>, <<"y">>, <<"-", "s">>,
                    <<"-", "-", "s", "s">>}]

\* A string operand followed by an integer operand, behind an option (test
\* "operand").
PositionsProgram ==
    [parser |->
        addOperand(
        addOperand(
        addOption(Parser, FALSE, "s", <<>>, <<>>, FALSE),
                  "string", <<"a">>, <<"A">>, <<>>, FALSE),
                  "int8", Integer(FALSE, <<1>>), <<"I">>, <<>>, FALSE),
     first |-> {<<"p">>},
     rest  |-> {<<"x">>, <<"2">>, <<"-", "-">>, <<"-", "2">>}]

\* A sink alone, bound to a container that already holds an element (test
\* "operand sink", section "preserved pre-existing elements in sink").
SinkProgram ==
    [parser |-> addOperandSink(Parser, "string", <<<<"p", "r", "e">>>>, <<"K">>, <<>>, FALSE),
     first |-> {<<"p">>},
     rest  |-> {<<"A">>, <<"B">>, <<"-", "-">>, <<"-", "a">>}]

\* Both prefixes set to the same string (test "prefix precedence"), with
\* the default terminator or one that looks like an option (test "custom
\* terminator looks like option").
PrefixProgram(terminator) ==
    [parser |->
        setOptionTerminator(
        setLongOptionPrefix(
        setShortOptionPrefix(
        addOption(
        addOption(
        addOption(
        addOption(Parser, FALSE, "a", <<>>, <<>>, FALSE),
                  FALSE, NUL, <<"a">>, <<>>, FALSE),
                  FALSE, "b", <<>>, <<>>, FALSE),
                  FALSE, NUL, <<"a", "b">>, <<>>, FALSE),
                  "/"), <<"/">>), terminator),
     first |-> {<<"p">>},
     rest  |-> {<<"/", "a">>, <<"/", "b">>, <<"/", "a", "b">>, <<"/", "b", "a">>,
                <<"/">>, <<"-", "-">>}]

\* Custom terminator, separator and long prefix (test "custom syntax").
SyntaxProgram(terminator, separator, longPrefix) ==
    [parser |->
        setLongOptionPrefix(
        setLongOptionSeparator(
        setOptionTerminator(
        addOperand(
        addOptionT(
        addOption(Parser, FALSE, "a", <<"a", "a">>, <<>>, FALSE),
                   "string", <<"1">>, NUL, <<"i", "i">>, <<"I">>, <<>>, FALSE),
                   "string", <<"o">>, <<"O">>, <<>>, FALSE),
                   terminator), separator), longPrefix),
     first |-> {<<"p">>, <<"-", "a">>},
     rest  |-> {<<"-", "a">>, <<"-", "-", "i", "i", "=", "2">>,
                <<"-", "-", "i", "i">>, <<"-", "-">>, <<>>}]

\* A first token that looks like an option, a terminator or an operand,
\* with and without a configured utility name (test "argv is vector",
\* test "utility name").
UtilityProgram(name) ==
    [parser |->
        setUtilityName(
        addOperand(
        addOption(Parser, FALSE, "a", <<"a", "a">>, <<>>, FALSE),
                   "string", <<"o">>, <<"O">>, <<>>, FALSE),
                   name),
     first |-> {<<"p">>, <<"-", "a">>, <<"-", "-", "a", "a">>, <<"-", "-">>, <<>>},
     rest  |-> {<<"-", "a">>, <<"-", "-">>, <<"x">>}]

\* Absent and duplicate names (Parser::getOption).
NamesProgram ==
    [parser |->
        addOption(
        addOption(
        addOption(Parser, FALSE, "a", <<>>, <<>>, FALSE),
                  FALSE, NUL, <<"b", "b">>, <<>>, TRUE),
                  FALSE, "a", <<"b", "b">>, <<>>, FALSE),
     first |-> {<<"p">>},
     rest  |-> {<<"-", "a">>, <<"-", "-", "b", "b">>, <<"-", NUL>>,
                <<"-", "a", NUL>>, <<"-", "-", "=">>, <<"-", "-", "=", "x">>}]

Programs ==
    {FlagsProgram(FALSE, FALSE), FlagsProgram(TRUE, TRUE)}
    \cup {ValuesProgram(r) : r \in BOOLEAN}
    \cup {OperandsProgram(r, k) : r \in BOOLEAN, k \in {"operand", "both", "sink"}}
    \cup {PrefixProgram(<<"-", "-">>), PrefixProgram(<<"/", "a">>), NamesProgram}
    \cup {UtilityProgram(<<>>), UtilityProgram(<<"u">>), NumbersProgram,
          PositionsProgram, SinkProgram}
    \cup {SyntaxProgram(<<"-", "a">>, "=", <<"-", "-">>),
          SyntaxProgram(<<>>, NUL, <<"-", "-">>),
          SyntaxProgram(<<"-", "-">>, "=", <<>>)}

-----------------------------------------------------------------------------
(* Specification *)

\* The state once the program has constructed and configured its parser.
Constructed(program) ==
    /\ shortPrefix_   = program.parser.shortPrefix_
    /\ longPrefix_    = program.parser.longPrefix_
    /\ longSeparator_ = program.parser.longSeparator_
    /\ terminator_    = program.parser.terminator_
    /\ isTerminated_  = program.parser.isTerminated_
    /\ utilityName_   = program.parser.utilityName_
    /\ helpProlog_    = program.parser.helpProlog_
    /\ helpEpilog_    = program.parser.helpEpilog_
    /\ usageTitle_    = program.parser.usageTitle_
    /\ optionsTitle_  = program.parser.optionsTitle_
    /\ operandsTitle_ = program.parser.operandsTitle_
    /\ optionsUsage_  = program.parser.optionsUsage_
    /\ operandsUsage_ = program.parser.operandsUsage_
    /\ defaultIntro_  = program.parser.defaultIntro_
    /\ helpWidth_     = program.parser.helpWidth_
    /\ helpIndent_    = program.parser.helpIndent_
    /\ options_       = program.parser.options_
    /\ operands_      = program.parser.operands_
    /\ vocabulary     = [first |-> program.first, rest |-> program.rest]
    /\ argv = <<>>
    /\ it = 1
    /\ token = 1
    /\ nameIt = 1
    /\ operand = 1
    /\ pc = "idle"
    /\ outcome = Running
    /\ role = <<>>
    /\ before = [call |-> "none", isTerminated |-> isTerminated_,
                 options |-> options_, operands |-> operands_]

\* No ValueArg is looked at on its own, nothing has been written, and no
\* call of writeWrapped is followed.
NoCodec  == [at |-> "off"]
NoStream == [at |-> "off", count |-> 0, text |-> <<>>,
             flags |-> "skipws|dec", locale |-> "classic"]

\* The formatting flags and the locale of the stream the program writes the
\* help to: those of a new stream, or what the program has set.
StreamFormats ==
    {[flags |-> "skipws|dec", locale |-> "classic"],
     [flags |-> "left|hex|showbase", locale |-> "global"]}
NoWrap   == [at |-> "off"]

Init ==
    /\ \E program \in Programs : Constructed(program)
    /\ codec = NoCodec
    /\ stream = NoStream
    /\ wrap = NoWrap

Next ==
    \/ parse
    \/ parseUtility
    \/ parseOptions
    \/ parseShortOptions
    \/ parseOperands
    \/ parseTerminator
    \/ checkEnd
    \/ checkRequired

Spec == Init /\ [][Next]_vars

\* The statements of a parse call: Parser::parseAll and what it calls.
parseAll ==
    \/ parseUtility
    \/ parseOptions
    \/ parseShortOptions
    \/ parseOperands
    \/ parseTerminator
    \/ checkEnd
    \/ checkRequired

\* The programs whose arguments are booleans, signals and strings.
LivePrograms == Programs \ {NumbersProgram, PositionsProgram}

LiveInit ==
    /\ \E program \in LivePrograms : Constructed(program)
    /\ codec = NoCodec
    /\ stream = NoStream
    /\ wrap = NoWrap

\* A call that was entered runs on: no statement of parseAll waits for
\* anything.
SpecLive == LiveInit /\ [][Next]_vars /\ WF_vars(parseAll)

TypeOK ==
    /\ pc \in {"idle", "parseUtility", "parseOptions", "parseShortOptions",
               "parseOperands", "parseTerminator", "checkEnd", "checkRequired",
               "done"}
    /\ it \in 1..end
    /\ isTerminated_ \in BOOLEAN
    /\ outcome.kind \in {"Running", "Success", "Error", "Signal"}
    /\ (pc = "done") = (outcome.kind # "Running")


-----------------------------------------------------------------------------
(* The value codec on its own: one ValueArg<T>, the strings it is given    *)
(* and the string it renders.                                              *)

Succ(v) == Integer(v.neg, IF v.neg THEN Sub(v.mag, <<1>>) ELSE MulAdd(v.mag, 1, 1))
Pred(v) ==
    IF v.neg \/ v.mag = <<>> THEN Integer(TRUE, MulAdd(v.mag, 1, 1))
    ELSE Integer(FALSE, Sub(v.mag, <<1>>))

\* The limits of the integer types and their neighbours, in decimal (tests
\* "int8 value" to "uint64 value").
LimitTexts ==
    UNION {{Decimal(numeric_limits_min(T)), Decimal(numeric_limits_max(T)),
            Decimal(Pred(numeric_limits_min(T))),
            Decimal(Succ(numeric_limits_max(T)))} : T \in IntegerTypes}

\* Tests "hexadecimal integer format", "ignore ambiguous octal integer
\* format", and strings with a sign, white space or a stray character.
FormatTexts ==
    {<<"0", "X", "A", "B", "C", "D", "E", "F">>,
     <<"0", "x", "a", "b", "c", "d", "e", "f">>,
     <<"0", "x", "0", "0", "0", "0", "0", "0", "0", "0">>,
     <<"-", "0", "x", "8", "0", "0", "0", "0", "0", "0", "0">>,
     <<"0", "x", "7", "f", "f", "f", "f", "f", "f", "f">>,
     <<"-", "0", "x", "8", "0", "0", "0", "0", "0", "0", "1">>,
     <<"0", "x", "8", "0", "0", "0", "0", "0", "0", "0">>,
     <<"f", "f">>, <<"0", "x">>, <<"0", "x", "G">>, <<"1", "2", "x">>,
     <<"x", "1", "2">>, <<"1", "x", "2">>, <<"0", "x", "1", "x">>,
     <<"0", "9">>, <<"0", "1", "0">>, <<"-", "0">>, <<"+", "5">>,
     <<" ", "5">>, <<"5", " ">>, <<"5", "-">>, <<"-">>, <<>>, <<"a">>,
     <<" ", "-", "2">>, <<"1", ".", "0">>, <<"0", "x", "1", "f">>}

StringTexts == {<<>>, <<"d">>, <<"a", " ", "b">>, <<"\"", "d", "\"">>}

Texts(T) == IF T = "string" THEN StringTexts ELSE LimitTexts \cup FormatTexts

\* The values the bound variable holds when the argument is declared.
Values(T) ==
    IF T = "string" THEN StringTexts
    ELSE {numeric_limits_min(T), numeric_limits_max(T), Integer(FALSE, <<1>>)}

\* ValueArg<T>::ValueArg for an optional argument bound to a variable that
\* holds target; s is the string a caller is about to give it.
CodecInit ==
    /\ Constructed([parser |-> Parser, first |-> {}, rest |-> {}])
    /\ \E T \in IntegerTypes \cup {"string"} :
         \E target \in Values(T) :
           \E s \in Texts(T) :
              codec = [at       |-> "constructed",
                       arg      |-> ValueArg(T, NUL, <<>>, <<>>, <<>>, FALSE, target),
                       s        |-> s,
                       rendered |-> FALSE,
                       thrown   |-> FALSE,
                       message  |-> ""]
    /\ stream = NoStream
    /\ wrap = NoWrap

\* Arg::parse(s) -> ValueArg::doParse: target_ = fromString<T>(s).
doParse ==
    /\ codec.at \in {"constructed", "rendered"}
    /\ LET parsed == ArgParse(codec.arg, codec.s)
       IN  codec' = [codec EXCEPT !.at = "parsed",
                                  !.arg = parsed.arg,
                                  !.thrown = parsed.thrown,
                                  !.message = parsed.message]
    /\ UNCHANGED <<parserVars, helpSettings, stream, wrap>>

\* Arg::getDefaultValue -> ValueArg::doGetDefaultValue: toString<T>(default_).
\* The string is kept as the next one to parse.
doGetDefaultValue ==
    /\ codec.at \in {"constructed", "parsed"}
    /\ codec' = [codec EXCEPT !.at = "rendered",
                              !.s = IF codec.arg.isRequired_ THEN <<>>
                                    ELSE toString(codec.arg.T, codec.arg.default_),
                              !.rendered = TRUE,
                              !.thrown = FALSE,
                              !.message = ""]
    /\ UNCHANGED <<parserVars, helpSettings, stream, wrap>>

CodecNext ==
    \/ doParse
    \/ doGetDefaultValue

CodecSpec == CodecInit /\ [][CodecNext]_vars


-----------------------------------------------------------------------------
(* Programs that write the help of their parser (test/help.cpp).           *)

\* Test "help message sections": prolog, epilog, a utility name, a boolean
\* option and a required operand.
SectionsProgram ==
    [parser |->
        addOperand(
        addOption(
        setUtilityName(
        ParserWith(<<"P", "r", "o", "l", "o", "g">>, <<"E", "p", "i", "l", "o", "g">>),
                   <<"u", "t", "i", "l", "i", "t", "y">>),
                  FALSE, "a", <<>>, <<"A", "a">>, FALSE),
                  "int32", Integer(FALSE, <<1>>), <<"B", "B", "B">>, <<"B", "b">>, TRUE),
     first |-> {<<"p">>},
     rest  |-> {<<"-", "a">>, <<"5">>, <<"x">>}]

\* Test "help message formatting", sections "required options and
\* operands" and "optional options and operands", with the help width of
\* the section "mix of short and long options" or the default one.
FormattingProgram(required, width) ==
    [parser |->
        addOperandSink(
        addOperand(
        addOptionT(
        addOption(
        setHelpWidth(
        setUtilityName(Parser, <<"h", "e", "l", "l", "o">>), width),
                  FALSE, "a", <<>>, <<"A", "a">>, required),
                  "int32", Integer(FALSE, <<1>>), "b", <<>>, <<"B", "B">>, <<"B", "b">>,
                  required),
                  "int32", Integer(FALSE, <<1>>), <<"C", "C">>, <<"C", "c">>, required),
                  "int32", <<>>, <<"D", "D", "D">>, <<"D", "d">>, required),
     first |-> {<<"p">>},
     rest  |-> {<<"-", "a">>, <<"-", "b">>, <<"2">>, <<"-", "a", "b", "3">>,
                <<"-", "-">>, <<"x">>}]

\* Test "help message formatting", section "mix of short and long options".
MixProgram ==
    [parser |->
        addOptionT(
        addOptionT(
        addOptionT(
        addOption(
        setHelpWidth(
        setUtilityName(Parser, <<"h", "e", "l", "l", "o">>), 21),
                  FALSE, "a", <<"a", "a">>, <<"A", "a">>, TRUE),
                  "int32", Integer(FALSE, <<1>>), "b", <<"b", "b", "b">>, <<"B", "B">>,
                  <<"B", "b">>, TRUE),
                  "int32", Integer(FALSE, <<1>>), "c", <<>>, <<"C", "C", "C">>,
                  <<"C", "c">>, TRUE),
                  "int32", Integer(FALSE, <<1>>), NUL, <<"d", "d", "d", "d">>,
                  <<"D", "D", "D", "D">>, <<"D", "d">>, TRUE),
     first |-> {<<"p">>},
     rest  |-> {<<"-", "a">>}]

\* Test "help message formatting", section "custom indent".
IndentProgram ==
    [parser |->
        addOperand(
        addOptionT(
        setHelpIndent(
        setHelpWidth(
        setUtilityName(Parser, <<"h", "e", "l", "l", "o">>), 16), 4),
                  "int32", Integer(FALSE, <<1>>), "b", <<>>, <<"B", "B">>, <<"B", "b">>,
                  TRUE),
                  "int32", Integer(FALSE, <<1>>), <<"C", "C", "C", "C">>, <<"C", "c">>,
                  TRUE),
     first |-> {<<"p">>},
     rest  |-> {<<"-", "b">>, <<"4">>}]

\* Test "help message line wrapping": the descriptions of the sections
\* "boundary checks", "overshoot", "explicit newline", "space collapsing"
\* and "text only consists of whitespace", and an overshoot by a word that
\* is longer than the help width.
Descriptions ==
    {<<"E", "x", "a", "c", "t", "l", "y", " ", "t", "o", " ", "h", "e", "r",
     "e", " ", "C", "a", "n", "'", "t", " ", "f", "i", "t", " ", "n", "e", "x",
     "t", " ", "t", " ", "F", "u", "l", "l", "w", "i", "d", "t", "h", "t", "o",
     "k", "e", "n", ".">>,
     <<"T", "h", "i", "s", "i", "s", "a", "v", "e", "r", "y", "l", "o", "n",
     "g", "t", "o", "k", "e", "n", " ", "N", "e", "x", "t", " ", "l", "i", "n",
     "e", " ", "o", "k", " ", "A", "n", "o", "t", "h", "e", "r", "v", "e", "r",
     "y", "l", "o", "n", "g", "t", "o", "k", "e", "n">>,
     <<"F", "i", "r", "s", "t", "\n", "S", "e", "c", "o", "n", "d", " ", "l",
     "i", "n", "e", "\n", "\n", "F", "o", "u", "r", "t", "h", " ", "\n", " ",
     "F", "i", "f", "t", "h">>,
     <<" ", " ", "H", "e", "l", "l", "o", ",", " ", " ", " ", "w", "o", "r",
     "l", "d", "!", " ", " ">>,
     <<" ", " ", " ", " ">>,
     <<"W", "o", "r", "d", " ", "A", "w", "o", "r", "d", "l", "o", "n", "g",
     "e", "r", "t", "h", "a", "n", "t", "h", "e", "w", "i", "d", "t", "h", " ",
     "e", "n", "d">>}

WrappingProgram(description) ==
    [parser |->
        addOption(
        setHelpWidth(
        setOperandsTitle(
        setUsageTitle(Parser, <<>>), <<>>), 21),
                  FALSE, "a", <<>>, description, FALSE),
     first |-> {<<"p">>},
     rest  |-> {<<"-", "a">>}]

\* Test "help message line wrapping", section "zero width (stupid)".
ZeroWidthProgram ==
    [parser |->
        setHelpWidth(
        setUtilityName(
        addOperand(
        addOptionT(Parser, "int32", Integer(FALSE, <<1>>), "a", <<"a", "a", "a">>,
                   <<"A", "A">>,
                   <<"A", " ", "s", "t", "u", "p", "i", "d", " ", "w", "i",
                   "d", "t", "h", ".">>,
                   FALSE),
                   "int32", Integer(FALSE, <<1>>), <<"B", "B", "B">>,
                   <<"S", "t", "i", "l", "l", " ", "s", "t", "u", "p", "i",
                   "d", ".", ".", ".">>,
                   FALSE),
                   <<"h", "e", "l", "l", "o">>), 0),
     first |-> {<<"p">>},
     rest  |-> {<<"-", "a">>, <<"7">>}]

\* Test "usage section": the utility name is read from argv, preserved
\* when set, or absent; with a help width and with custom usage strings.
UsageProgram(name, width, usage) ==
    [parser |->
        setOperandsUsage(
        setOptionsUsage(
        setHelpWidth(
        setUtilityName(
        addOperand(
        addOption(
        setOperandsTitle(
        setOptionsTitle(Parser, <<>>), <<>>),
                  FALSE, "a", <<>>, <<"A", "a">>, FALSE),
                  "int32", Integer(FALSE, <<1>>), <<"B", "B", "B">>, <<"B", "b">>, FALSE),
                  name), width), usage), usage),
     first |-> {<<"h", "i">>},
     rest  |-> {<<"-", "a">>}]

\* Test "help message with default values": string and integer operands
\* and a string option that a parse call may overwrite, a sink, a boolean
\* option and a required operand, with the default value intro given.
DefaultsProgram(intro) ==
    [parser |->
        setDefaultValueIntro(
        addOperandSink(
        addOperand(
        addOperand(
        addOperand(
        addOptionT(
        addOption(
        setUsageTitle(Parser, <<>>),
                  FALSE, "a", <<>>, <<>>, FALSE),
                  "string", <<"d">>, "v", <<>>, <<"V">>, <<>>, FALSE),
                  "string", <<>>, <<"e", "m", "p", "t", "y">>, <<>>, FALSE),
                  "int8", Integer(FALSE, <<2>>), <<"I", "I">>, <<"I", "i">>, FALSE),
                  "uint8", Integer(FALSE, <<3>>), <<"R">>, <<>>, TRUE),
                  "int8", <<>>, <<"K">>, <<>>, FALSE),
                  intro),
     first |-> {<<"p">>},
     rest  |-> {<<"-", "v">>, <<"-", "a", "v", "x">>, <<"x">>, <<"5">>,
                <<"-", "1">>, <<"-", "-">>}]

\* Test "help message sections" with a prolog and a description that end
\* with an explicit newline (test "help message line wrapping", section
\* "explicit newline").
TrailingProgram ==
    [parser |->
        addOption(
        ParserWith(<<"P", "\n">>, <<"E">>),
                  FALSE, "a", <<>>, <<"A", "\n">>, FALSE),
     first |-> {<<"p">>},
     rest  |-> {<<"-", "a">>}]

HelpPrograms ==
    {SectionsProgram, MixProgram, IndentProgram, ZeroWidthProgram, TrailingProgram}
    \cup {FormattingProgram(r, w) : r \in BOOLEAN, w \in {21, 80}}
    \cup {WrappingProgram(d) : d \in Descriptions}
    \cup {UsageProgram(n, w, <<>>) : n \in {<<>>, <<"p">>, <<"c", "u", "s", "t", "o", "m">>},
                                     w \in {0, 80}}
    \cup {UsageProgram(<<>>, 80, <<"o", "p", "t", "i", "o", "n", "s", ".", ".", ".">>)}
    \cup {DefaultsProgram(i) : i \in {<<>>, <<"H", "e", "l", "l", "o", ":">>,
                                      <<"d", "e", "f", "a", "u", "l", "t", ":",
                                      " ">>}}

\* The calls of Parser::writeWrapped that Parser::writeHelp makes in the
\* current state: for the prolog, the usage, every entry of the two
\* glossaries, and the epilog.
glossaryCalls(title, args) ==
    IF title = <<>> \/ args = <<>> THEN {}
    ELSE {[tokens        |-> Entries(args)[i].description,
           initialPos    |-> Tab(args),
           hangingIndent |-> Tab(args)] : i \in 1..Len(args)}

wrappedCalls ==
    {[tokens |-> tokenize(paragraph), initialPos |-> 0, hangingIndent |-> 0] :
        paragraph \in {helpProlog_, helpEpilog_} \ {<<>>}}
    \cup (IF usageTitle_ = <<>> THEN {}
          ELSE {[tokens        |-> usageTokens,
                 initialPos    |-> helpIndent_,
                 hangingIndent |-> helpIndent_ * 2]})
    \cup glossaryCalls(optionsTitle_, options_)
    \cup glossaryCalls(operandsTitle_, operands_)

-----------------------------------------------------------------------------
(* Specification of a program that calls parse() twice on one Parser *)

\* A boolean option, a signal and a string operand; the option and the
\* operand required or not.
RepeatProgram(required) ==
    [parser |->
        addOperand(
        addSignal(
        addOption(Parser, FALSE, "a", <<>>, <<>>, required),
                  "h", <<>>, <<>>),
                  "string", <<"o">>, <<"O">>, <<>>, required),
     first |-> {<<"p">>},
     rest  |-> {<<"-", "-">>, <<"-", "a">>, <<"-", "h">>}]

\* A sink declared before a string operand, required or not.
AfterSinkProgram(required) ==
    [parser |->
        addOperand(
        addOperandSink(Parser, "string", <<>>, <<"K">>, <<>>, FALSE),
                  "string", <<"o">>, <<"O">>, <<>>, required),
     first |-> {<<"p">>},
     rest  |-> {<<"x">>, <<"-", "-">>, <<"-", "a">>}]

AgainPrograms ==
    {RepeatProgram(r) : r \in BOOLEAN} \cup {AfterSinkProgram(r) : r \in BOOLEAN}

AgainInit ==
    /\ \E program \in AgainPrograms : Constructed(program)
    /\ codec = NoCodec
    /\ stream = NoStream
    /\ wrap = NoWrap

AgainNext ==
    \/ parse
    \/ parseAgain
    \/ parseUtility
    \/ parseOptions
    \/ parseShortOptions
    \/ parseOperands
    \/ parseTerminator
    \/ checkEnd
    \/ checkRequired

AgainSpec == AgainInit /\ [][AgainNext]_vars

-----------------------------------------------------------------------------
(* Specification of a program that parses and writes help *)

HelpInit ==
    /\ \E program \in HelpPrograms : Constructed(program)
    /\ codec = NoCodec
    /\ \E format \in StreamFormats :
          stream = [NoStream EXCEPT !.flags = format.flags, !.locale = format.locale]
    /\ wrap = NoWrap

HelpNext ==
    \/ parse
    \/ parseUtility
    \/ parseOptions
    \/ parseShortOptions
    \/ parseOperands
    \/ parseTerminator
    \/ checkEnd
    \/ checkRequired
    \/ writeHelp

HelpSpec == HelpInit /\ [][HelpNext]_vars

-----------------------------------------------------------------------------
(* Specification of one call of Parser::writeWrapped *)

WrapInit ==
    /\ \E program \in HelpPrograms : Constructed(program)
    /\ codec = NoCodec
    /\ stream = NoStream
    /\ \E call \in wrappedCalls :
          wrap = [at            |-> "loop",
                  tokens        |-> call.tokens,
                  initialPos    |-> call.initialPos,
                  hangingIndent |-> call.hangingIndent,
                  i             |-> 1,
                  out           |-> <<>>,
                  pos           |-> call.initialPos,
                  spaces        |-> 0,
                  placed        |-> <<>>]

\* The number of line breaks written.
Breaks(out) == Cardinality({k \in 1..Len(out) : out[k] = "\n"})

\* One iteration of the loop of Parser::writeWrapped, or its return.  The
\* record placed keeps, for every token, the position it was reached at
\* and the line and column where it was written.
writeWrappedLoop ==
    /\ wrap.at = "loop"
    /\ IF wrap.i > Len(wrap.tokens)
       THEN wrap' = [wrap EXCEPT !.at = "returned"]
       ELSE LET tok == wrap.tokens[wrap.i]
                w   == writeWrappedToken(
                          [out |-> wrap.out, pos |-> wrap.pos, spaces |-> wrap.spaces],
                          tok, wrap.hangingIndent)
            IN  wrap' = [wrap EXCEPT
                            !.i = @ + 1,
                            !.out = w.out,
                            !.pos = w.pos,
                            !.spaces = w.spaces,
                            !.placed = Append(@, [from   |-> wrap.pos,
                                                  line   |-> Breaks(w.out),
                                                  column |-> w.pos - Len(tok)])]
    /\ UNCHANGED <<parserVars, codec, helpSettings, stream>>

WrapNext == writeWrappedLoop

WrapSpec == WrapInit /\ [][WrapNext]_vars

\* The loop runs on: nothing in writeWrapped waits.
WrapLive == WrapSpec /\ WF_vars(WrapNext)


-----------------------------------------------------------------------------
(* Vocabulary of the properties *)

\* The token shapes of the command-line syntax, read off the settings.
LongShaped(t) ==
    /\ longPrefix_ # <<>>
    /\ Len(t) > Len(longPrefix_)
    /\ \A k \in 1..Len(longPrefix_) : t[k] = longPrefix_[k]

ShortShaped(t) == Len(t) > 1 /\ t[1] = shortPrefix_

IsTerminator(t) == terminator_ # <<>> /\ t = terminator_

\* The token is read as a cluster of short names.
IsCluster(t) == ShortShaped(t) /\ ~LongShaped(t) /\ ~IsTerminator(t)

\* No other declared option carries the short or the long name of option o.
UniqueName(o) ==
    \A j \in 1..Len(options_) :
        j # o => /\ options_[o].shortName_ # NUL
                      => options_[j].shortName_ # options_[o].shortName_
                 /\ options_[o].longName_ # <<>>
                      => options_[j].longName_ # options_[o].longName_

\* The declared options that carry a name.
WithShort(c) == {o \in 1..Len(options_) : c # NUL /\ options_[o].shortName_ = c}
WithLong(n)  == {o \in 1..Len(options_) : n # <<>> /\ options_[o].longName_ = n}

Least(S) == CHOOSE i \in S : \A j \in S : i <= j

\* The name part of a long-option token: from the prefix to the first
\* separator, or to the end of the token.
Separators(t) == {k \in Len(longPrefix_) + 1 .. Len(t) : t[k] = longSeparator_}
HasSeparator(t) == Separators(t) # {}
LongName(t) ==
    IF HasSeparator(t)
    THEN SubSeq(t, Len(longPrefix_) + 1, Least(Separators(t)) - 1)
    ELSE SubSeq(t, Len(longPrefix_) + 1, Len(t))

\* The parse call stands at a token of the options stage that is read as a
\* long option, resp. at character nameIt of a short cluster.
AtLongOption ==
    /\ pc = "parseOptions"
    /\ it <= Len(argv)
    /\ ~isTerminated_
    /\ ~IsTerminator(argv[it])
    /\ LongShaped(argv[it])

AtShortName ==
    /\ pc = "parseShortOptions"
    /\ token <= Len(argv)
    /\ nameIt <= Len(argv[token])

Finished == pc = "done"

Succeeded == pc = "done" /\ outcome = Success

Failed(message) ==
    pc = "done" /\ outcome.kind = "Error" /\ outcome.message = message


-----------------------------------------------------------------------------
(* Boolean options *)

\* The token names boolean option o: by its long form, or by its short
\* name inside a cluster of boolean short names.
NamesBool(t, o) ==
    \/ /\ options_[o].longName_ # <<>>
       /\ LongShaped(t)
       /\ ~IsTerminator(t)
       /\ t = longPrefix_ \o options_[o].longName_
    \/ /\ options_[o].shortName_ # NUL
       /\ IsCluster(t)
       /\ \A k \in 2..Len(t) : \E j \in WithShort(t[k]) : options_[j].kind = "bool"
       /\ \E k \in 2..Len(t) : t[k] = options_[o].shortName_

\* Option o appeared: one of the tokens of the options stage names it.
Appeared(o) ==
    \E n \in 1..Len(argv) : role[n] = "option" /\ NamesBool(argv[n], o)

\* A token of the options stage carries a name of option o anywhere, also
\* in a cluster that holds the short name of a value option.
Mentioned(o) ==
    \E n \in 1..Len(argv) :
        /\ role[n] = "option"
        /\ \/ NamesBool(argv[n], o)
           \/ /\ options_[o].shortName_ # NUL
              /\ IsCluster(argv[n])
              /\ \E k \in 2..Len(argv[n]) : argv[n][k] = options_[o].shortName_

\* C1: after a successful parse the target of a boolean option is true if
\* the option appeared before the terminator, as its long form or as its
\* short name alone or in a cluster of boolean short names; if it did not
\* appear the target holds the value it had when parse() was called.
C1_BooleanOption ==
    Succeeded =>
        \A o \in 1..Len(options_) :
            (options_[o].kind = "bool" /\ UniqueName(o)) =>
                /\ Appeared(o) => options_[o].target_ = TRUE
                /\ ~Mentioned(o) => options_[o].target_ = before.options[o].target_

\* A successful parse where one boolean option was set inside a cluster of
\* two names and another one, initially true, did not appear.
C1_Witness ==
    /\ Succeeded
    /\ \E o \in 1..Len(options_) :
          /\ options_[o].kind = "bool"
          /\ UniqueName(o)
          /\ ~before.options[o].target_
          /\ \E n \in 1..Len(argv) :
                /\ role[n] = "option"
                /\ Len(argv[n]) = 3
                /\ IsCluster(argv[n])
                /\ NamesBool(argv[n], o)
    /\ \E o \in 1..Len(options_) :
          /\ options_[o].kind = "bool"
          /\ UniqueName(o)
          /\ ~Mentioned(o)
          /\ before.options[o].target_


-----------------------------------------------------------------------------
(* Value options *)

\* The values v that the step about to run supplies to value option o, in
\* each of the forms of the command-line syntax.
NextTokenOfLong(o) ==
    IF AtLongOption /\ it < Len(argv)
          /\ argv[it] = longPrefix_ \o options_[o].longName_
    THEN {argv[it + 1]}
    ELSE {}

MergedInLong(o) ==
    IF AtLongOption /\ longSeparator_ # NUL
    THEN {v \in {SubSeq(argv[it], k, Len(argv[it])) : k \in 1..Len(argv[it]) + 1} :
            argv[it] = longPrefix_ \o options_[o].longName_ \o <<longSeparator_>> \o v}
    ELSE {}

NextTokenOfShort(o) ==
    IF AtShortName /\ it <= Len(argv)
          /\ nameIt = Len(argv[token])
          /\ argv[token][nameIt] = options_[o].shortName_
    THEN {argv[it]}
    ELSE {}

MergedInShort(o) ==
    IF AtShortName
    THEN {v \in {SubSeq(argv[token], k, Len(argv[token])) : k \in 2..Len(argv[token])} :
            /\ v # <<>>
            /\ SubSeq(argv[token], nameIt, Len(argv[token]))
                  = <<options_[o].shortName_>> \o v}
    ELSE {}

IsValueOption(o) ==
    /\ options_[o].kind = "value"
    /\ options_[o].T = "string"
    /\ UniqueName(o)
    /\ longSeparator_ \notin {options_[o].longName_[k] : k \in 1..Len(options_[o].longName_)}

\* C2: a value v supplied to a value option as the next token after its
\* short or long form, merged after the separator of its long form (v may
\* be empty), or merged after its short name in the same token (v not
\* empty) is the value the bound variable holds after the step: the forms
\* leave the identical value.
C2_ValueForms ==
    [][\A o \in 1..Len(options_) :
          IsValueOption(o) =>
             \A v \in NextTokenOfLong(o) \cup MergedInLong(o)
                        \cup NextTokenOfShort(o) \cup MergedInShort(o) :
                /\ options_'[o].target_ = v
                /\ outcome' = Running]_vars

\* The empty value merged after the separator has replaced a non-empty
\* target, and the call has succeeded.
C2_Witness ==
    /\ Succeeded
    /\ \E o \in 1..Len(options_) :
          /\ IsValueOption(o)
          /\ before.options[o].target_ # <<>>
          /\ options_[o].target_ = <<>>
          /\ role[Len(argv)] = "option"
          /\ argv[Len(argv)] = longPrefix_ \o options_[o].longName_ \o <<longSeparator_>>


-----------------------------------------------------------------------------
(* Signals *)

IsSignal(o) == options_[o].kind = "signal" /\ UniqueName(o)

\* The step about to run looks up the long name, resp. the short name, of
\* signal o.
SignalAtLong(o) ==
    /\ AtLongOption
    /\ options_[o].longName_ # <<>>
    /\ ~HasSeparator(argv[it])
    /\ argv[it] = longPrefix_ \o options_[o].longName_

SignalAtShort(o) ==
    /\ AtShortName
    /\ options_[o].shortName_ # NUL
    /\ argv[token][nameIt] = options_[o].shortName_

\* C3: a token of the options stage that matches a declared signal, by its
\* long name, its short name or a character of a short cluster, ends the
\* parse call at once with a Signal that carries the short character and
\* the long name of the signal; nothing runs after it, neither a later
\* token nor the required check.
C3_Signal ==
    /\ [][\A o \in 1..Len(options_) :
            (IsSignal(o) /\ (SignalAtLong(o) \/ SignalAtShort(o))) =>
                /\ pc' = "done"
                /\ outcome' = Signal(options_[o].shortName_, options_[o].longName_)
                /\ options_' = options_
                /\ operands_' = operands_]_vars
    /\ [][outcome.kind # "Signal"]_vars
    /\ [](outcome.kind = "Signal" =>
            /\ pc = "done"
            /\ \A n \in it..Len(argv) : role[n] = "none")

\* A Signal raised from inside a short cluster while a required option is
\* unsatisfied and a token is left.
C3_Witness ==
    /\ pc = "done"
    /\ outcome.kind = "Signal"
    /\ \E o \in 1..Len(options_) : options_[o].isRequired_ /\ ~options_[o].isDone_
    /\ it <= Len(argv)
    /\ Len(argv[it - 1]) = 3
    /\ role[it - 1] = "option"

-----------------------------------------------------------------------------
(* Required arguments *)

\* The declared arguments in the order of the required check.
Declared == options_ \o operands_

Missing ==
    {i \in 1..Len(Declared) : Declared[i].isRequired_ /\ ~Declared[i].isDone_}

Label(arg) ==
    IF arg.shortName_ # NUL THEN <<shortPrefix_>> \o <<arg.shortName_>>
    ELSE IF arg.longName_ # <<>> THEN longPrefix_ \o arg.longName_
    ELSE arg.valueName_

OtherFailure ==
    \/ outcome.kind = "Signal"
    \/ outcome.kind = "Error" /\ outcome.message # "Cannot find required argument: "

-----------------------------------------------------------------------------
(* Terminator *)

RecognitionPoint == pc \in {"parseOptions", "parseOperands", "parseTerminator"}

OptionMessages ==
    {"Unknown option name: ", "Cannot find value for option: ",
     "Unexpected option value: ", "Unexpected option: "}

\* C5: within a parse call the terminated state is sticky.  The first
\* token equal to the non-empty terminator that the call reaches at a
\* recognition point is consumed and sets the state; from then on no token
\* is consumed as option, option value or terminator, no option is written,
\* no Signal is raised and no error about an option is thrown: a later
\* token is an operand value or is left over.
C5_Terminated ==
    /\ [][isTerminated_ => isTerminated_']_vars
    /\ [][(RecognitionPoint /\ it <= Len(argv) /\ ~isTerminated_
             /\ IsTerminator(argv[it])) =>
                /\ isTerminated_'
                /\ role'[it] = "terminator"
                /\ it' > it]_vars
    /\ [][isTerminated_ =>
                /\ options_' = options_
                /\ outcome'.kind # "Signal"
                /\ outcome'.kind = "Error" => outcome'.message \notin OptionMessages
                /\ \A n \in 1..Len(argv) : role'[n] \in {role[n], "operand"}]_vars
    /\ [](\A n \in 1..Len(argv) : role[n] = "terminator" =>
             \A m \in n + 1..Len(argv) : role[m] \in {"operand", "none"})

\* After the terminator, a second terminator token and a token with an
\* option prefix were both taken as operand values.
C5_Witness ==
    /\ Succeeded
    /\ \E n \in 1..Len(argv) :
          /\ role[n] = "terminator"
          /\ \E m \in n + 1..Len(argv) : IsTerminator(argv[m]) /\ role[m] = "operand"
          /\ \E m \in n + 1..Len(argv) : ShortShaped(argv[m]) /\ ~IsTerminator(argv[m])
                                           /\ role[m] = "operand"

-----------------------------------------------------------------------------
(* Operands *)

\* The tokens the call has consumed as operand values, in token order.
OperandTokens ==
    LET at == SelectSeq([n \in 1..Len(argv) |-> n], LAMBDA n : role[n] = "operand")
    IN  [j \in 1..Len(at) |-> argv[at[j]]]

\* Operand k is a sink and the operands before it take one token each.
IsSinkAt(k) ==
    /\ operands_[k].isSink_
    /\ \A j \in 1..k - 1 : ~operands_[j].isSink_

BareShortPrefix(t) == t = <<shortPrefix_>>

\* C6: with a sink operand, a terminator between two sink values is
\* consumed without being appended and every token after it is appended,
\* whatever it looks like: the sink holds its former elements followed by
\* the operand tokens left to it, none is rejected.  A token that is only
\* the short prefix is never consumed as an option, and before a terminator
\* the operands stage takes it as an operand value.
C6_Sink ==
    /\ [](\A k \in 1..Len(operands_) : IsSinkAt(k) =>
            /\ operands_[k].target_ =
                  before.operands[k].target_
                     \o SubSeq(OperandTokens, k, Len(OperandTokens))
            /\ \A n \in 1..Len(argv) :
                  (Finished /\ role[n] = "terminator" /\ Len(OperandTokens) >= k) =>
                      /\ \A m \in n + 1..Len(argv) : role[m] = "operand"
                      /\ outcome.kind = "Error" =>
                            outcome.message = "Cannot find required argument: ")
    /\ [](\A n \in 1..Len(argv) : BareShortPrefix(argv[n]) => role[n] # "option")
    /\ [][(pc = "parseOperands" /\ it <= Len(argv) /\ ~isTerminated_
             /\ BareShortPrefix(argv[it]) /\ ~IsTerminator(argv[it])) =>
                /\ role'[it] = "operand"
                /\ operands_'[operand].isDone_
                /\ outcome' = Running]_vars

\* The sink holds a value, then nothing for the terminator, then a token
\* that looks like an option; the value before the terminator is the bare
\* short prefix.
C6_Witness ==
    /\ Succeeded
    /\ \E k \in 1..Len(operands_) :
          /\ IsSinkAt(k)
          /\ Len(operands_[k].target_) = 2
          /\ BareShortPrefix(operands_[k].target_[1])
          /\ ShortShaped(operands_[k].target_[2])
          /\ ~IsTerminator(operands_[k].target_[2])
          /\ \E n \in 2..Len(argv) - 1 :
                role[n - 1] = "operand" /\ role[n] = "terminator" /\ role[n + 1] = "operand"

\* C7: in the operands stage, while an operand waits for a token and the
\* call is not terminated, a token that satisfies the long or the short
\* prediction fails the parse with "Unexpected option: <token>" and is not
\* stored: an operand value with an option shape always follows a
\* terminator.
C7_UnexpectedOption ==
    /\ [][(pc = "parseOperands" /\ it <= Len(argv) /\ ~isTerminated_
             /\ ~IsTerminator(argv[it])
             /\ (LongShaped(argv[it]) \/ ShortShaped(argv[it]))) =>
                /\ pc' = "done"
                /\ outcome' = Error("Unexpected option: ", argv[it])
                /\ operands_' = operands_
                /\ role'[it] = "none"]_vars
    /\ [](\A n \in 1..Len(argv) :
            (role[n] = "operand" /\ (LongShaped(argv[n]) \/ ShortShaped(argv[n]))) =>
                \E m \in 1..n - 1 : role[m] = "terminator")

\* An operand value was stored and the next token, a short option by
\* shape, was rejected.
C7_Witness ==
    /\ Failed("Unexpected option: ")
    /\ it <= Len(argv)
    /\ outcome.what = argv[it]
    /\ ShortShaped(argv[it])
    /\ ~LongShaped(argv[it])
    /\ role[it - 1] = "operand"
    /\ role[it] = "none"


-----------------------------------------------------------------------------
(* End check *)

\* C8: a token left unconsumed after the options, operands and trailing
\* terminator stages fails the parse with "Unexpected argument: <t>",
\* where t is the first unconsumed token.
C8_UnexpectedArgument ==
    /\ [][(pc = "checkEnd" /\ it # end) =>
                /\ pc' = "done"
                /\ outcome' = Error("Unexpected argument: ", argv[it])]_vars
    /\ [](Failed("Unexpected argument: ") =>
            /\ it <= Len(argv)
            /\ outcome.what = argv[it]
            /\ role[it] = "none"
            /\ \A n \in 1..it - 1 : role[n] # "none")
    /\ []((Finished /\ \E n \in 1..Len(argv) : role[n] = "none") =>
            outcome.kind \in {"Error", "Signal"})

\* Two tokens are left over and they differ: the first one is named.
C8_Witness ==
    /\ Failed("Unexpected argument: ")
    /\ it < Len(argv)
    /\ argv[it] # argv[Len(argv)]
    /\ \E n \in 1..it - 1 : role[n] = "operand"

-----------------------------------------------------------------------------
(* Name lookup *)

UnknownLong(name) ==
    \/ name = <<>>
    \/ \A o \in 1..Len(options_) : options_[o].longName_ # name

UnknownShort(c) ==
    \/ c = NUL
    \/ \A o \in 1..Len(options_) : options_[o].shortName_ # c

\* The option the step about to run looks up, when the name is declared:
\* the first one in declaration order.
LookedUp ==
    IF AtLongOption /\ ~UnknownLong(LongName(argv[it]))
    THEN {Least({o \in 1..Len(options_) : options_[o].longName_ = LongName(argv[it])})}
    ELSE IF AtShortName /\ ~UnknownShort(argv[token][nameIt])
    THEN {Least({o \in 1..Len(options_) : options_[o].shortName_ = argv[token][nameIt]})}
    ELSE {}

\* C9: a long-option token whose name part matches no declared long name
\* and a cluster character that matches no declared short name fail the
\* parse with "Unknown option name: <name>"; the empty long name and the
\* short name 0 are never found, also when an option is declared without
\* that name; a lookup that succeeds yields the first declared option of
\* that name, no other option is touched.
C9_UnknownName ==
    /\ [][(AtLongOption /\ UnknownLong(LongName(argv[it]))) =>
                /\ pc' = "done"
                /\ outcome' = Error("Unknown option name: ", LongName(argv[it]))
                /\ options_' = options_]_vars
    /\ [][(AtShortName /\ UnknownShort(argv[token][nameIt])) =>
                /\ pc' = "done"
                /\ outcome' = Error("Unknown option name: ", <<argv[token][nameIt]>>)
                /\ options_' = options_]_vars
    /\ [][\A o \in LookedUp :
                /\ \A j \in 1..Len(options_) : j # o => options_'[j] = options_[j]
                /\ outcome'.kind = "Signal" =>
                      outcome' = Signal(options_[o].shortName_, options_[o].longName_)
                /\ outcome' = Running => options_'[o].isDone_
                /\ outcome'.kind = "Error" => outcome'.message # "Unknown option name: "]_vars

\* The lookup of the empty long name failed although an option is declared
\* with the empty long name.
C9_Witness ==
    /\ Failed("Unknown option name: ")
    /\ outcome.what = <<>>
    /\ \E o \in 1..Len(options_) : options_[o].longName_ = <<>>
    /\ \E o \in 1..Len(options_) : options_[o].shortName_ = NUL

-----------------------------------------------------------------------------
(* Missing option value *)

\* The step about to run matches option o without an inline value while no
\* token follows; the set holds the whole option token.
MatchedAtEnd(o) ==
    IF AtLongOption /\ it = Len(argv) /\ ~HasSeparator(argv[it])
          /\ LongName(argv[it]) = options_[o].longName_
    THEN {argv[it]}
    ELSE IF AtShortName /\ it = end /\ nameIt = Len(argv[token])
          /\ argv[token][nameIt] = options_[o].shortName_
    THEN {argv[token]}
    ELSE {}

\* C10: a value-taking option matched without an inline value, as a long
\* form without separator or as the last character of a short cluster,
\* while no token follows, fails the parse with "Cannot find value for
\* option: <whole option token>"; its bound variable and its satisfied
\* flag are unchanged.
C10_MissingValue ==
    [][\A o \in LookedUp : options_[o].hasValue_ =>
          \A t \in MatchedAtEnd(o) :
             /\ pc' = "done"
             /\ outcome' = Error("Cannot find value for option: ", t)
             /\ options_'[o] = options_[o]]_vars

\* The value option was the last character of a cluster of two names: the
\* whole token is reported, the boolean option before it is set, the value
\* option is as it was when parse() was called.
C10_Witness ==
    /\ Failed("Cannot find value for option: ")
    /\ Len(outcome.what) = 3
    /\ IsCluster(outcome.what)
    /\ outcome.what = argv[Len(argv)]
    /\ \E o \in 1..Len(options_) :
          /\ options_[o].hasValue_
          /\ options_[o].shortName_ = outcome.what[3]
          /\ options_[o] = before.options[o]
    /\ \E o \in 1..Len(options_) :
          /\ options_[o].kind = "bool"
          /\ options_[o].shortName_ = outcome.what[2]
          /\ options_[o] # before.options[o]


-----------------------------------------------------------------------------
(* Values given to options that take none *)

\* The step about to run reads a long-option token that contains the
\* separator and whose name part is the long name of option o.
ValueGivenTo(o) ==
    /\ AtLongOption
    /\ HasSeparator(argv[it])
    /\ options_[o].longName_ # <<>>
    /\ LongName(argv[it]) = options_[o].longName_

\* C11: a long-option token that contains the separator and names an
\* option that takes no value (a boolean option or a signal) fails with
\* "Unexpected option value: <token>" before the option is marked
\* satisfied: the step ends the call with that Error and no Signal, and it
\* leaves the boolean target and every other bound variable as they were.
C11_UnexpectedValue ==
    [][\A o \in 1..Len(options_) :
          (ValueGivenTo(o) /\ UniqueName(o) /\ ~options_[o].hasValue_) =>
             /\ pc' = "done"
             /\ outcome' = Error("Unexpected option value: ", argv[it])
             /\ options_' = options_
             /\ operands_' = operands_]_vars

\* The call has failed at a token that gives a value to a declared signal.
C11_Witness ==
    /\ Failed("Unexpected option value: ")
    /\ \E o \in 1..Len(options_) :
          /\ IsSignal(o)
          /\ ~options_[o].isDone_
          /\ outcome.what = longPrefix_ \o options_[o].longName_ \o <<longSeparator_, "x">>
          /\ argv[it - 1] = outcome.what


-----------------------------------------------------------------------------
(* Order of recognition in the options stage *)

\* The options stage stands at a token.
AtOptionsToken == pc = "parseOptions" /\ it <= Len(argv) /\ ~isTerminated_

\* What the step did with the token at position n: it consumed it as the
\* terminator, looked it up as a long option, entered it as a cluster of
\* short names, or left it to the operands.
TakenAsTerminator(n) ==
    /\ isTerminated_'
    /\ role'[n] = "terminator"
    /\ it' = n + 1
    /\ options_' = options_
    /\ pc' \in {"parseOperands", "parseTerminator"}

TakenAsLongOption(n) ==
    /\ role'[n] = "option"
    /\ pc' \in {"parseOptions", "done"}
    /\ nameIt' = nameIt
    /\ \/ outcome' = Error("Unknown option name: ", LongName(argv[n]))
       \/ \E o \in WithLong(LongName(argv[n])) :
             \/ options_'[o].isDone_
             \/ outcome'.kind \in {"Error", "Signal"}

TakenAsCluster(n) ==
    /\ role'[n] = "option"
    /\ pc' = "parseShortOptions"
    /\ token' = n
    /\ nameIt' = 2
    /\ options_' = options_

LeftToOperands(n) ==
    /\ role'[n] = "none"
    /\ it' = n
    /\ options_' = options_
    /\ pc' \in {"parseOperands", "parseTerminator"}

\* C12: at every position of the options stage recognition is tried in
\* the fixed order terminator, long option, short cluster, and the token is
\* handled by the first rule it matches: a token equal to the terminator
\* is consumed as terminator even if it looks like an option, and a token
\* matching both the long and the short prefix is interpreted as a long
\* option.
C12_RecognitionOrder ==
    [][AtOptionsToken =>
          IF IsTerminator(argv[it]) THEN TakenAsTerminator(it)
          ELSE IF LongShaped(argv[it]) THEN TakenAsLongOption(it)
          ELSE IF ShortShaped(argv[it]) THEN TakenAsCluster(it)
          ELSE LeftToOperands(it)]_vars

\* With both prefixes equal, a token that reads as the cluster of two
\* declared short names has set the long option of that name and neither
\* short option, and the next token, which names a declared long option and
\* equals the terminator, was consumed as the terminator.
C12_Witness ==
    /\ Succeeded
    /\ Len(argv) = 3
    /\ role[2] = "option" /\ role[3] = "terminator"
    /\ ShortShaped(argv[2]) /\ LongShaped(argv[2]) /\ Len(argv[2]) = 3
    /\ ShortShaped(argv[3]) /\ LongShaped(argv[3]) /\ IsTerminator(argv[3])
    /\ WithLong(LongName(argv[3])) # {}
    /\ \A k \in 2..3 : \E o \in WithShort(argv[2][k]) : ~options_[o].isDone_
    /\ \E o \in WithLong(LongName(argv[2])) : options_[o].target_ = TRUE


-----------------------------------------------------------------------------
(* The utility-name stage *)

\* The call has passed the utility-name stage.
PastUtility == pc \notin {"idle", "parseUtility"}

\* C13: for every non-empty input the first token is consumed by the
\* utility-name stage and is never interpreted as an option, terminator or
\* operand, whether or not a utility name was configured; it is stored as
\* the utility name only when the stored name is empty, and an empty input
\* skips the stage.  No other step stores a utility name.
C13_UtilityStage ==
    /\ [][pc = "parseUtility" =>
            /\ pc' = "parseOptions"
            /\ UNCHANGED <<options_, operands_, isTerminated_, outcome>>
            /\ IF argv = <<>>
               THEN UNCHANGED <<utilityName_, it, role>>
               ELSE /\ it' = 2
                    /\ role' = [role EXCEPT ![1] = "utility"]
                    /\ utilityName_' = IF utilityName_ = <<>> THEN argv[1]
                                       ELSE utilityName_]_vars
    /\ [][pc # "parseUtility" => utilityName_' = utilityName_]_vars
    /\ [](PastUtility /\ argv # <<>> => role[1] = "utility" /\ it >= 2)
    /\ [](Finished /\ Len(argv) <= 1 =>
            /\ ~isTerminated_
            /\ options_ = before.options
            /\ operands_ = before.operands)

\* A call has succeeded on an input whose only token is the short form of a
\* declared boolean option: the option is not set, and the token did not
\* replace the configured utility name.
C13_Witness ==
    /\ Succeeded
    /\ Len(argv) = 1
    /\ role[1] = "utility"
    /\ utilityName_ \notin {<<>>, argv[1]}
    /\ \E o \in 1..Len(options_) :
          /\ options_[o].kind = "bool"
          /\ argv[1] = <<shortPrefix_, options_[o].shortName_>>
          /\ ~options_[o].target_


-----------------------------------------------------------------------------
(* Integer targets *)

\* The ValueArg has parsed a string of the caller, not one it rendered.
ParsedInput == codec.at = "parsed" /\ ~codec.rendered

Accepted == ~codec.thrown /\ codec.message = ""

\* The conversion threw an Error and the bound variable is as it was.
Rejected ==
    /\ codec.thrown
    /\ codec.message \in {"Cannot parse integer: ", "Cannot parse unsigned integer: "}
    /\ codec.arg.target_ = codec.arg.default_

DecimalChars == {"0", "1", "2", "3", "4", "5", "6", "7", "8", "9"}

\* A numeral: decimal digits, with or without a minus sign in front.
IsNumeral(s) ==
    /\ s # <<>>
    /\ \A k \in 2..Len(s) : s[k] \in DecimalChars
    /\ s[1] \in DecimalChars \/ (s[1] = "-" /\ Len(s) > 1)

\* The integer a numeral denotes.
NumeralValue(s) ==
    LET digits == IF s[1] = "-" THEN Tail(s) ELSE s
    IN  Integer(s[1] = "-",
                Trim([k \in 1..Len(digits) |->
                        CHOOSE d \in 0..9 : LowerDigits[d + 1] = digits[k]]))

InLimits(T, v) ==
    IntLessEq(numeric_limits_min(T), v) /\ IntLessEq(v, numeric_limits_max(T))

\* The claim as stated: for an integer target of width w and signedness s
\* a numeral token is accepted and stored exactly when its value lies in
\* [min(T), max(T)], and is rejected with an Error otherwise.
C14_AsStated ==
    (ParsedInput /\ codec.arg.T \in IntegerTypes /\ IsNumeral(codec.s)) =>
        IF InLimits(codec.arg.T, NumeralValue(codec.s))
        THEN Accepted /\ codec.arg.target_ = NumeralValue(codec.s)
        ELSE Rejected

\* The numeral holds a minus sign.
Signed(s) == \E k \in 1..Len(s) : s[k] = "-"

\* C14: for an integer target of width 8, 32 or 64, signed or unsigned, a
\* numeral token is accepted and stored exactly when its value lies in
\* [min(T), max(T)] and, for an unsigned target, the token holds no minus
\* sign; otherwise it is rejected with an Error and the target keeps its
\* value.  So min and max are accepted, min-1 and max+1 are rejected, and
\* a token with a minus sign for an unsigned target is rejected rather
\* than wrapped around, also when it denotes zero.
C14_IntegerLimits ==
    (ParsedInput /\ codec.arg.T \in IntegerTypes /\ IsNumeral(codec.s)) =>
        IF /\ InLimits(codec.arg.T, NumeralValue(codec.s))
           /\ is_signed[codec.arg.T] \/ ~Signed(codec.s)
        THEN Accepted /\ codec.arg.target_ = NumeralValue(codec.s)
        ELSE Rejected

\* An unsigned 64-bit target was given the numeral -1, which wrapped
\* around would be its maximum, and has rejected it.
C14_Witness ==
    /\ ParsedInput
    /\ codec.arg.T = "uint64"
    /\ codec.s = <<"-", "1">>
    /\ Rejected
    /\ codec.arg.target_ = Integer(FALSE, <<1>>)


-----------------------------------------------------------------------------
(* Integer formats *)

\* The base the claim gives a token: 16 if it holds an x or X anywhere.
BaseOf(s) == IF \E k \in 1..Len(s) : s[k] \in {"x", "X"} THEN 16 ELSE 10

\* The token without leading white space, and without its sign.
Unspaced(s) == SubSeq(s, SkipSpace(s, 1), Len(s))
Unsigned(s) ==
    IF Unspaced(s) # <<>> /\ Head(Unspaced(s)) \in {"+", "-"}
    THEN Tail(Unspaced(s)) ELSE Unspaced(s)

\* The digits of the token: what follows the sign, and in base 16 what
\* follows a 0x or 0X after the sign.
DigitsOf(s) ==
    LET u == Unsigned(s)
    IN  IF BaseOf(s) = 16 /\ Len(u) > 2 /\ u[1] = "0" /\ u[2] \in {"x", "X"}
        THEN SubSeq(u, 3, Len(u)) ELSE u

\* The conversion in the base of the token consumes the whole token.
WholeToken(s) ==
    /\ DigitsOf(s) # <<>>
    /\ \A k \in 1..Len(DigitsOf(s)) : IsDigit(DigitsOf(s)[k], BaseOf(s))

\* The integer the token denotes in its base.
ValueOf(s) ==
    Integer(Unspaced(s)[1] = "-",
            Accumulate(DigitsOf(s), 1, Len(DigitsOf(s)) + 1, BaseOf(s), <<>>))

Text(s) == codec.s = s

\* C15: an integer token is converted in base 16 if it contains the
\* character x or X anywhere and in base 10 otherwise (a leading 0 never
\* selects octal), and it is accepted only if the whole token is consumed
\* by the conversion; the value stored is the one the token denotes in
\* that base, and a token that is not accepted is rejected with an Error.
\* So 0x7fffffff yields 2147483647 for a signed 32-bit target, 010 yields
\* 10, and ff, 0x, 12x are rejected.
C15_IntegerBase ==
    (ParsedInput /\ codec.arg.T \in IntegerTypes) =>
        /\ Accepted => /\ WholeToken(codec.s)
                       /\ codec.arg.target_ = ValueOf(codec.s)
        /\ ~Accepted => Rejected
        /\ (WholeToken(codec.s) /\ InLimits(codec.arg.T, ValueOf(codec.s))
               /\ (is_signed[codec.arg.T] \/ ~Signed(codec.s))) => Accepted
        /\ (Text(<<"0", "x", "7", "f", "f", "f", "f", "f", "f", "f">>)
               /\ codec.arg.T = "int32") =>
                  /\ Accepted
                  /\ codec.arg.target_ =
                        Integer(FALSE, <<2, 1, 4, 7, 4, 8, 3, 6, 4, 7>>)
        /\ Text(<<"0", "1", "0">>) =>
              Accepted /\ codec.arg.target_ = Integer(FALSE, <<1, 0>>)
        /\ Text(<<"0", "9">>) =>
              Accepted /\ codec.arg.target_ = Integer(FALSE, <<9>>)
        /\ (Text(<<"f", "f">>) \/ Text(<<"0", "x">>) \/ Text(<<"1", "2", "x">>))
              => Rejected

\* A signed 32-bit target that held 1 was given 0x7fffffff and holds its
\* maximum.
C15_Witness ==
    /\ ParsedInput
    /\ codec.arg.T = "int32"
    /\ Text(<<"0", "x", "7", "f", "f", "f", "f", "f", "f", "f">>)
    /\ Accepted
    /\ codec.arg.default_ = Integer(FALSE, <<1>>)
    /\ codec.arg.target_ = numeric_limits_max("int32")


-----------------------------------------------------------------------------
(* Rendering a value and parsing the rendered text *)

\* The ValueArg has parsed the text it rendered from the value it was
\* declared with.
ParsedRendering == codec.at = "parsed" /\ codec.rendered

Quoted(s) == <<"\"">> \o s \o <<"\"">>

-----------------------------------------------------------------------------
(* C17: rendering help twice on the same Parser, with no parse call,       *)
(* declaration or configuration change in between, produces byte-identical *)
(* output.  A second rendering made at the same place of the program (both *)
(* before the parse call, or both after it) writes the text the first one  *)
(* wrote.                                                                  *)

RenderedAgain ==
    /\ stream.count >= 1
    /\ stream'.count = stream.count + 1
    /\ stream.at = pc

-----------------------------------------------------------------------------
(* C18: when a parse call fails (Error) or is aborted (Signal), every bound *)
(* variable written before the failing token keeps the value written to it  *)
(* (no rollback), and every bound variable whose argument was not reached   *)
(* keeps the value it had before the call.  The step that throws changes no *)
(* bound variable, and once the call has thrown, the variable of every      *)
(* argument that was not completed is what it was when parse() was called.  *)

HaltedEarly == pc = "done" /\ outcome.kind \in {"Error", "Signal"}

Bound(args) == {i \in 1..Len(args) : args[i].kind # "signal"}

SameTargets(args, old) ==
    \A i \in Bound(args) : args[i].target_ = old[i].target_

Untouched(args, old) ==
    \A i \in Bound(args) : ~args[i].isDone_ => args[i].target_ = old[i].target_

C18_NoRollback ==
    /\ [][HaltedEarly' /\ ~HaltedEarly =>
             /\ SameTargets(options_', options_)
             /\ SameTargets(operands_', operands_)]_vars
    /\ [](HaltedEarly => /\ Untouched(options_, before.options)
                         /\ Untouched(operands_, before.operands))

\* An integer that cannot be converted stops the call after an earlier
\* option was written and before the operand is reached.
C18_Witness ==
    /\ HaltedEarly
    /\ outcome.kind = "Error"
    /\ \E o \in Bound(options_) :
          /\ options_[o].isDone_
          /\ options_[o].target_ # before.options[o].target_
    /\ \E o \in Bound(options_) :
          /\ options_[o].kind = "value"
          /\ options_[o].T = "int8"
          /\ ~options_[o].isDone_
          /\ role[it - 1] = "none"
    /\ \E k \in Bound(operands_) : ~operands_[k].isDone_


-----------------------------------------------------------------------------
(* C19: in a glossary, when the default-value label is non-empty and the   *)
(* argument is optional, the value rendered in the "(default: X)" suffix is *)
(* the current value of the bound variable at render time, and the suffix   *)
(* is appended only when the rendered text is non-empty.                    *)

\* The help on the stream was written in the current state of the parser.
Rendered == stream.count >= 1 /\ stream.at = pc

OccursAt(text, sub, k) ==
    /\ k + Len(sub) - 1 <= Len(text)
    /\ \A j \in 1..Len(sub) : text[k + j - 1] = sub[j]

Contains(text, sub) == \E k \in 1..Len(text) : OccursAt(text, sub, k)

Suffix(x) == <<"(">> \o defaultIntro_ \o x \o <<")">>

\* The arguments listed in the glossaries that were written.
Listed ==
    (IF optionsTitle_ = <<>> THEN {} ELSE {options_[i] : i \in 1..Len(options_)})
    \cup (IF operandsTitle_ = <<>> THEN {} ELSE {operands_[i] : i \in 1..Len(operands_)})

\* The arguments with a suffix: optional, and bound to a variable that the
\* Value Codec renders (a boolean option, a signal and a sink render
\* nothing).
WithDefault == {arg \in Listed : ~arg.isRequired_ /\ arg.kind = "value"}

\* No title, name, description or paragraph of HelpPrograms holds a
\* parenthesis, so every "(" of the text opens a suffix.
Suffixes == Cardinality({k \in 1..Len(stream.text) : stream.text[k] = "("})

\* C19 as stated: the suffix shows the variable as it is at render time.
C19_AsStated ==
    Rendered /\ defaultIntro_ # <<>> =>
        \A arg \in WithDefault :
            Contains(stream.text, Suffix(toString(arg.T, arg.target_)))

\* C19 amended: the suffix shows the value the bound variable had when the
\* argument was declared, whatever a parse call has written to it since; it
\* is appended once for every optional argument whose value the Value Codec
\* renders, and never when the label is empty.
C19_DefaultSuffix ==
    Rendered =>
        IF defaultIntro_ = <<>> THEN Suffixes = 0
        ELSE /\ \A arg \in WithDefault :
                    Contains(stream.text, Suffix(toString(arg.T, arg.default_)))
             /\ Suffixes = Cardinality(WithDefault)

\* The help is written after a parse call has overwritten a variable, next
\* to a boolean option, a sink and a required operand.
C19_Witness ==
    /\ Rendered
    /\ pc = "done"
    /\ defaultIntro_ # <<>>
    /\ \E arg \in WithDefault : arg.target_ # arg.default_
    /\ \E arg \in Listed : arg.kind = "sink"
    /\ \E arg \in Listed : arg.kind = "bool" /\ ~arg.isRequired_
    /\ \E arg \in Listed : arg.kind = "value" /\ arg.isRequired_
    /\ Suffixes = 3


-----------------------------------------------------------------------------
(* C20: word wrapping breaks before a token exactly when it is an explicit *)
(* newline token, or when appending it with its leading spaces would       *)
(* exceed the help width and the current position is already past the      *)
(* hanging indent; consequently a single word longer than the width (e.g.  *)
(* width 21) is emitted unsplit, alone on its own line after the hanging   *)
(* indent, and rendering always finishes, including for width 0 where      *)
(* every token past the indent starts a new line.                          *)

\* The step writes the token wrap.tokens[wrap.i].
TokenStep == wrap.at = "loop" /\ wrap'.i = wrap.i + 1

ThisToken == wrap.tokens[wrap.i]

IsNewlineToken(tok) == tok = <<"\n">>

WouldExceed == wrap.pos + wrap.spaces + Len(ThisToken) > helpWidth_

PastIndent == wrap.pos > wrap.hangingIndent

BrokeBefore == Breaks(wrap'.out) = Breaks(wrap.out) + 1

\* The stream ends with the token, whole.
EndsWith(out, tok) ==
    /\ Len(out) >= Len(tok)
    /\ \A j \in 1..Len(tok) : out[Len(out) - Len(tok) + j] = tok[j]

\* The words written so far that are longer than the help width.
LongWords ==
    {k \in 1..Len(wrap.placed) :
        ~IsNewlineToken(wrap.tokens[k]) /\ Len(wrap.tokens[k]) > helpWidth_}

\* Token k is at the hanging indent, and no other word is on its line.
AloneAtIndent(k) ==
    /\ wrap.placed[k].column = wrap.hangingIndent
    /\ \A j \in 1..Len(wrap.placed) :
          j # k /\ ~IsNewlineToken(wrap.tokens[j])
             => wrap.placed[j].line # wrap.placed[k].line

\* The rule of the break, and the whole token after it.
BreakRule ==
    TokenStep =>
        /\ BrokeBefore <=> IsNewlineToken(ThisToken) \/ (WouldExceed /\ PastIndent)
        /\ ~IsNewlineToken(ThisToken) => EndsWith(wrap'.out, ThisToken)
        /\ helpWidth_ = 0 /\ PastIndent => BrokeBefore

\* C20 as stated: every word longer than the width is alone on its own line
\* at the hanging indent.
C20_AsStated ==
    wrap.at # "off" => \A k \in LongWords : AloneAtIndent(k)

\* C20 amended: the rule of the break holds for every token; a word longer
\* than the width is written whole, and it is alone on its own line at the
\* hanging indent when it was reached past the hanging indent (a word
\* reached at or before the hanging indent stays on the line that is being
\* written); every call returns.
C20_Wrapping ==
    /\ [][BreakRule]_vars
    /\ [](wrap.at # "off" =>
             \A k \in LongWords :
                 wrap.placed[k].from > wrap.hangingIndent => AloneAtIndent(k))
    /\ <>[](wrap.at = "returned")

\* A description of three words at width 21 whose second word is longer
\* than the width: it was reached past the hanging indent and stands alone.
C20_Witness ==
    /\ wrap.at = "returned"
    /\ helpWidth_ = 21
    /\ Len(wrap.tokens) = 3
    /\ 2 \in LongWords
    /\ wrap.placed[2].from > wrap.hangingIndent
    /\ wrap.placed[1].line = 0
    /\ wrap.placed[2].line = 1
    /\ wrap.placed[3].line = 2
    /\ wrap.placed[2].column = wrap.hangingIndent


-----------------------------------------------------------------------------
(* C21: help output consists of the sections prolog, usage, options        *)
(* glossary, operands glossary, epilog in that fixed order; the prolog or   *)
(* epilog is omitted when its text is empty, the usage section when its     *)
(* title is empty, and a glossary when its title is empty or its argument   *)
(* list is empty; an omitted section emits nothing (no header, no blank     *)
(* line) and every emitted section ends with one blank line.                *)

\* The rule of each section: whether it is omitted, the text it is written
\* as on its own, the header it starts with, and the tokens written last.
ParagraphSection(paragraph) ==
    [omitted |-> paragraph = <<>>,
     text    |-> writeParagraph(<<>>, paragraph),
     header  |-> <<>>,
     last    |-> tokenize(paragraph)]

UsageSection ==
    [omitted |-> usageTitle_ = <<>>,
     text    |-> writeUsage(<<>>),
     header  |-> usageTitle_ \o <<"\n">>,
     last    |-> usageTokens]

GlossarySection(title, args) ==
    [omitted |-> title = <<>> \/ args = <<>>,
     text    |-> writeGlossary(<<>>, title, args),
     header  |-> title \o <<"\n">>,
     last    |-> IF args = <<>> THEN <<>> ELSE Entries(args)[Len(args)].description]

Sections ==
    <<ParagraphSection(helpProlog_),
      UsageSection,
      GlossarySection(optionsTitle_, options_),
      GlossarySection(operandsTitle_, operands_),
      ParagraphSection(helpEpilog_)>>

\* The number of line breaks the text ends with.
TrailingBreaks(text) ==
    Cardinality({k \in 1..Len(text) : \A j \in k..Len(text) : text[j] = "\n"})

\* The number of explicit newline tokens the list ends with.
TrailingNewlines(tokens) ==
    Cardinality({k \in 1..Len(tokens) :
                    \A j \in k..Len(tokens) : IsNewlineToken(tokens[j])})

\* The output is the sections in their order, an omitted one being empty
\* and an emitted one starting with its header.
InOrder ==
    /\ stream.text = Sections[1].text \o Sections[2].text \o Sections[3].text
                        \o Sections[4].text \o Sections[5].text
    /\ \A k \in 1..5 :
          IF Sections[k].omitted THEN Sections[k].text = <<>>
          ELSE /\ Sections[k].text # <<>>
               /\ OccursAt(Sections[k].text, Sections[k].header, 1)

\* C21 as stated: every emitted section ends with one blank line, that is
\* with two line breaks and no more.
C21_AsStated ==
    Rendered =>
        /\ InOrder
        /\ \A k \in 1..5 :
              ~Sections[k].omitted => TrailingBreaks(Sections[k].text) = 2

\* C21 amended: the sections come in the fixed order, an omitted section
\* emits nothing, and every emitted section ends with a blank line, which
\* every explicit newline at the end of the text written last in the
\* section follows with one more.
C21_Sections ==
    Rendered =>
        /\ InOrder
        /\ \A k \in 1..5 :
              ~Sections[k].omitted =>
                 TrailingBreaks(Sections[k].text)
                    = 2 + TrailingNewlines(Sections[k].last)

\* A help with all five sections, whose prolog ends with one blank line.
C21_Witness ==
    /\ Rendered
    /\ \A k \in 1..5 : ~Sections[k].omitted
    /\ Sections[1].text = helpProlog_ \o <<"\n", "\n">>
    /\ Len(stream.text) > Len(Sections[1].text) + Len(Sections[5].text)
    /\ options_ # <<>> /\ operands_ # <<>>


-----------------------------------------------------------------------------
(* C22: when the long-option separator is set to the nul character, long-  *)
(* option inline values are disabled entirely: no long-option token is ever *)
(* split into name and value, so every value-taking long option obtains its *)
(* value from the next token and a token such as "--iii=2" is looked up     *)
(* under the whole name "iii=2".                                            *)

SeparatorDisabled == longSeparator_ = NUL

\* Everything that follows the long prefix.
WholeName(t) == SubSeq(t, Len(longPrefix_) + 1, Len(t))

\* What the step at long-option token t does to value option o.
TakesNextToken(t, o) ==
    IF it = Len(argv)
    THEN outcome' = Error("Cannot find value for option: ", t)
    ELSE /\ options_'[o].target_ = argv[it + 1]
         /\ role'[it + 1] = "value"
         /\ it' = it + 2

C22_SeparatorDisabled ==
    [][AtLongOption /\ SeparatorDisabled =>
          IF WithLong(WholeName(argv[it])) = {}
          THEN outcome' = Error("Unknown option name: ", WholeName(argv[it]))
          ELSE \A o \in {Least(WithLong(WholeName(argv[it])))} :
                  options_[o].kind = "value" => TakesNextToken(argv[it], o)]_vars

\* A value option took the next token, and a later token with '=' was
\* looked up under its whole name.
C22_Witness ==
    /\ SeparatorDisabled
    /\ Finished
    /\ outcome.kind = "Error"
    /\ outcome.message = "Unknown option name: "
    /\ "=" \in {outcome.what[k] : k \in 1..Len(outcome.what)}
    /\ \E n \in 2..Len(argv) :
          /\ role[n] = "value"
          /\ role[n - 1] = "option"
          /\ LongShaped(argv[n - 1])
          /\ \E o \in WithLong(WholeName(argv[n - 1])) : options_[o].target_ = argv[n]


-----------------------------------------------------------------------------
(* C23: a sink operand keeps consuming tokens until the input is exhausted *)
(* or a terminator is found: once a terminator token is met while the sink  *)
(* is consuming, the sink consumes no further tokens.                       *)

\* The number of tokens consumed as operand values before token n.
OperandsBefore(n) == Cardinality({m \in 1..n - 1 : role[m] = "operand"})

\* Token n is a terminator that was met after sink k had taken a value.
MetByTheSink(n, k) ==
    /\ IsSinkAt(k)
    /\ role[n] = "terminator"
    /\ OperandsBefore(n) >= k

\* The operands stage stands in the loop of a sink of strings.
SinkConsuming ==
    /\ pc = "parseOperands"
    /\ operands_[operand].isSink_
    /\ operands_[operand].T = "string"

OptionShaped(t) == LongShaped(t) \/ ShortShaped(t)

\* C23 as stated: no token after a terminator that the sink has met is
\* consumed as an operand value.
C23_AsStated ==
    \A k \in 1..Len(operands_) : \A n \in 1..Len(argv) :
        MetByTheSink(n, k) => \A m \in n + 1..Len(argv) : role[m] # "operand"

\* The iteration of the sink's loop that starts at token n of the input:
\* at the end of the input the loop is left; an option-shaped token throws;
\* any other token is appended and the loop goes on.
SinkIteration(n, terminated) ==
    IF n = end
    THEN /\ pc' = "parseTerminator"
         /\ operands_' = operands_
    ELSE IF ~terminated /\ OptionShaped(argv[n])
    THEN /\ outcome' = Error("Unexpected option: ", argv[n])
         /\ operands_' = operands_
    ELSE /\ operands_'[operand].target_ = Append(operands_[operand].target_, argv[n])
         /\ it' = n + 1
         /\ pc' = "parseOperands"
         /\ outcome' = Running

\* C23 amended: a sink operand keeps consuming tokens until the input is
\* exhausted or a token fails the parse; a terminator met while the sink is
\* consuming is consumed without being appended and does not stop the
\* sink: every token after it is appended, whatever it looks like.
C23_SinkGoesOn ==
    /\ [][SinkConsuming =>
             IF TerminatorMatches
             THEN /\ role'[it] = "terminator"
                  /\ isTerminated_'
                  /\ SinkIteration(it + 1, TRUE)
             ELSE SinkIteration(it, isTerminated_)]_vars
    /\ [](\A k \in 1..Len(operands_) : \A n \in 1..Len(argv) :
             MetByTheSink(n, k) /\ operands_[k].T = "string" /\ Finished =>
                 \A m \in n + 1..Len(argv) : role[m] = "operand")

\* The sink took a value, met the terminator, and took the option-shaped
\* token after it.
C23_Witness ==
    /\ Succeeded
    /\ \E k \in 1..Len(operands_) : \E n \in 1..Len(argv) - 1 :
          /\ MetByTheSink(n, k)
          /\ role[n + 1] = "operand"
          /\ OptionShaped(argv[n + 1])
          /\ operands_[k].target_[Len(operands_[k].target_)] = argv[n + 1]


-----------------------------------------------------------------------------
(* C24: operand tokens are assigned by position in declaration order: the  *)
(* k-th operand-position token goes to the k-th declared operand, each     *)
(* non-sink operand consumes at most one token, and operands for which no  *)
(* token remains keep their initial value and stay unsatisfied.            *)

\* Operand k and the operands declared before it take one token each.
SingleUpTo(k) == \A j \in 1..k : ~operands_[j].isSink_

\* Operand k as it is after it was given the token t and completed.
Given(k, t) == ArgDone(ArgParse(before.operands[k], t).arg).arg

\* The step of the operands stage consumes a token for a non-sink operand.
TakesOne ==
    /\ pc = "parseOperands"
    /\ ~operands_[operand].isSink_
    /\ operands_'[operand] # operands_[operand]

\* C24: the k-th token consumed as an operand value is the one given to
\* the k-th declared operand, a non-sink operand is left as soon as it has
\* taken one token, and an operand that no token reached is as it was when
\* the call began, and is not done.
C24_Positional ==
    /\ [](\A k \in 1..Len(operands_) :
            /\ (SingleUpTo(k) /\ Len(OperandTokens) >= k) =>
                  /\ operands_[k] = Given(k, OperandTokens[k])
                  /\ operands_[k].isDone_
                  /\ operands_[k].T = "string" =>
                        operands_[k].target_ = OperandTokens[k]
            /\ (SingleUpTo(k - 1) /\ Len(OperandTokens) < k) =>
                  /\ operands_[k] = before.operands[k]
                  /\ ~operands_[k].isDone_)
    /\ [][TakesOne =>
            /\ operand = Len(OperandTokens) + 1
            /\ OperandTokens' = Append(OperandTokens, argv[it' - 1])
            /\ \/ operand' = operand + 1
               \/ operand = Len(operands_) /\ pc' = "parseTerminator"]_vars

\* Two operand tokens around a terminator: the first went to the first
\* declared operand, the second was converted for the second.
C24_Witness ==
    /\ Succeeded
    /\ Len(operands_) = 2
    /\ SingleUpTo(2)
    /\ Len(OperandTokens) = 2
    /\ operands_[1].target_ = OperandTokens[1]
    /\ operands_[2].target_ # before.operands[2].target_
    /\ \E n \in 1..Len(argv) : role[n] = "terminator"


-----------------------------------------------------------------------------
(* C25: a long-option token is split into name and value at the first      *)
(* occurrence of the separator after the prefix only: the value is         *)
(* everything after that first separator, may be empty and may itself      *)
(* contain separator characters, and is never split again.                 *)

\* The position of the first separator after the long prefix in t.
FirstSeparator(t) == Least(Separators(t))

\* Everything that follows the first separator of t.
MergedValue(t) == SubSeq(t, FirstSeparator(t) + 1, Len(t))

\* The parse call stands at a long-option token that holds a separator.
AtMergedLong ==
    /\ AtLongOption
    /\ longSeparator_ # NUL
    /\ HasSeparator(argv[it])

\* C25: the step at a long-option token with a separator looks up the
\* characters between the prefix and the first separator as the name, and
\* a value option found under that name is given everything after that
\* separator, empty or with further separators in it, and nothing of the
\* next token.
C25_FirstSeparator ==
    [][AtMergedLong =>
          IF WithLong(LongName(argv[it])) = {}
          THEN outcome' = Error("Unknown option name: ", LongName(argv[it]))
          ELSE \A o \in {Least(WithLong(LongName(argv[it])))} :
                  IF options_[o].kind = "value" /\ options_[o].T = "string"
                  THEN /\ options_'[o].target_ = MergedValue(argv[it])
                       /\ options_'[o].isDone_
                       /\ it' = it + 1
                       /\ \A n \in DOMAIN role : n # it => role'[n] = role[n]
                       /\ outcome' = Running
                  ELSE options_[o].kind = "bool" =>
                          outcome' = Error("Unexpected option value: ", argv[it])]_vars

\* A value option holds a merged value that begins with the separator, and
\* an earlier token gave it an empty one.
C25_Witness ==
    /\ Succeeded
    /\ \E n \in 2..Len(argv) : \E o \in 1..Len(options_) :
          /\ role[n] = "option"
          /\ LongShaped(argv[n])
          /\ HasSeparator(argv[n])
          /\ o \in WithLong(LongName(argv[n]))
          /\ MergedValue(argv[n]) = <<longSeparator_>>
          /\ options_[o].target_ = <<longSeparator_>>
          /\ \E m \in 2..n - 1 :
                /\ role[m] = "option"
                /\ LongShaped(argv[m])
                /\ HasSeparator(argv[m])
                /\ MergedValue(argv[m]) = <<>>


-----------------------------------------------------------------------------
(* C26: in a short-option cluster the characters after the prefix are      *)
(* processed left to right; value-less options let the walk continue,      *)
(* while the first value-taking option ends the walk by taking all         *)
(* remaining characters of the token as its value (or the next token if    *)
(* none remain); hence at most one value-taking option is processed per    *)
(* cluster token and characters after it are never looked up as option     *)
(* names.                                                                  *)

\* The characters of the cluster behind the one the walk stands at.
Remaining == SubSeq(argv[token], nameIt + 1, Len(argv[token]))

\* The walk of the cluster is over: no character is left to look up.
WalkEnded == nameIt = Len(argv[token]) + 1

\* The value that the value-taking option at nameIt is given.
ClusterValue == IF Remaining # <<>> THEN Remaining ELSE argv[it]

\* C26: the walk of a cluster starts behind the prefix and looks up the
\* character it stands at.  A boolean option moves it on by one character.
\* A value-taking option is given the rest of the token, or the next token
\* when the rest is empty, and the walk is over after its step or the call
\* has failed; a walk that is over looks up nothing and returns to the
\* options stage.
C26_ClusterWalk ==
    /\ [][pc = "parseOptions" /\ pc' = "parseShortOptions" =>
             /\ token' = it
             /\ nameIt' = 2]_vars
    /\ [][AtShortName =>
             \A o \in LookedUp :
                IF options_[o].kind = "bool"
                THEN /\ nameIt' = nameIt + 1
                     /\ pc' = "parseShortOptions"
                     /\ options_'[o].target_
                     /\ it' = it
                ELSE options_[o].kind = "value" =>
                     IF Remaining = <<>> /\ it = end
                     THEN outcome' = Error("Cannot find value for option: ", argv[token])
                     ELSE \/ /\ pc' = "done"
                             /\ outcome'.kind = "Error"
                             /\ outcome'.what = ClusterValue
                          \/ /\ pc' = "parseShortOptions"
                             /\ WalkEnded'
                             /\ options_'[o] =
                                   ArgDone(ArgParse(options_[o], ClusterValue).arg).arg
                             /\ options_[o].T = "string" =>
                                   options_'[o].target_ = ClusterValue
                             /\ it' = IF Remaining = <<>> THEN it + 1 ELSE it
                             /\ \A j \in 1..Len(options_) :
                                   j # o => options_'[j] = options_[j]]_vars
    /\ [][pc = "parseShortOptions" /\ WalkEnded =>
             /\ pc' = "parseOptions"
             /\ UNCHANGED <<options_, operands_, it, outcome>>]_vars

\* A cluster whose value-taking option was followed by the name of a
\* declared boolean option: the option holds that character as its value,
\* and the boolean option was not set.
C26_Witness ==
    /\ Succeeded
    /\ \E n \in 2..Len(argv) : \E o, b \in 1..Len(options_) :
          /\ role[n] = "option"
          /\ IsCluster(argv[n])
          /\ Len(argv[n]) = 3
          /\ options_[o].kind = "value"
          /\ options_[o].shortName_ = argv[n][2]
          /\ options_[b].kind = "bool"
          /\ options_[b].shortName_ = argv[n][3]
          /\ options_[o].target_ = <<argv[n][3]>>
          /\ ~options_[b].target_


-----------------------------------------------------------------------------
(* C27: when a value-taking option takes the next token as its value, that *)
(* token is consumed verbatim whatever it looks like: a token equal to the *)
(* terminator or starting with an option prefix becomes the value, does    *)
(* not set the terminated state, and does not set or fire the option it    *)
(* resembles.                                                              *)

\* The step about to run gives token n to value option o as its value: o
\* was named by a long-option token without merged value, or by the last
\* character of a cluster.
TakesNext(o, n) ==
    /\ o \in LookedUp
    /\ options_[o].kind = "value"
    /\ n <= Len(argv)
    /\ \/ /\ AtLongOption
          /\ longSeparator_ = NUL \/ ~HasSeparator(argv[it])
          /\ n = it + 1
       \/ /\ AtShortName
          /\ nameIt = Len(argv[token])
          /\ n = it

\* C27: the step in which a value option takes the next token gives it
\* that token as it is, and consumes it as a value: the terminated state
\* and every other argument stay as they were, and no signal is thrown;
\* the only failure is the conversion of that token.
C27_ValueVerbatim ==
    [][\A o \in 1..Len(options_) : \A n \in 1..Len(argv) :
          TakesNext(o, n) =>
             /\ isTerminated_' = isTerminated_
             /\ operands_' = operands_
             /\ \A j \in 1..Len(options_) : j # o => options_'[j] = options_[j]
             /\ outcome'.kind # "Signal"
             /\ it' = n + 1
             /\ IF outcome'.kind = "Error"
                THEN /\ outcome'.what = argv[n]
                     /\ options_[o].T # "string"
                ELSE /\ role'[n] = "value"
                     /\ options_'[o] = ArgDone(ArgParse(options_[o], argv[n]).arg).arg
                     /\ options_[o].T = "string" => options_'[o].target_ = argv[n]]_vars

\* A value option holds the terminator as its value (test "option value
\* looks like terminator"): the call is not terminated, and the token
\* after it was read as an option and set it.
C27_Witness ==
    /\ Succeeded
    /\ ~isTerminated_
    /\ \E n \in 3..Len(argv) - 1 : \E o, b \in 1..Len(options_) :
          /\ role[n] = "value"
          /\ role[n - 1] = "option"
          /\ IsTerminator(argv[n])
          /\ options_[o].kind = "value"
          /\ options_[o].target_ = argv[n]
          /\ role[n + 1] = "option"
          /\ options_[b].kind = "bool"
          /\ argv[n + 1] = <<shortPrefix_, options_[b].shortName_>>
          /\ options_[b].target_
          /\ ~before.options[b].target_


-----------------------------------------------------------------------------
(* C28: parsing appends each sink value to the end of the bound container  *)
(* in token order and never removes or reorders elements: elements present *)
(* in the container before the parse call remain as its prefix.            *)

\* Sequence s begins with sequence p.
IsPrefix(p, s) == Len(p) <= Len(s) /\ SubSeq(s, 1, Len(p)) = p

\* C28: a step leaves the container of a sink as it is or puts the token
\* it consumes behind its last element; the token is to the right of every
\* token appended before; and the container begins with the elements it
\* held when parse() was called.
C28_SinkAppends ==
    /\ [][\A k \in 1..Len(operands_) : operands_[k].isSink_ =>
             \/ operands_'[k].target_ = operands_[k].target_
             \/ /\ operands_'[k].target_ = Append(operands_[k].target_, argv[it' - 1])
                /\ role'[it' - 1] = "operand"
                /\ \A n \in 1..Len(argv) : role[n] = "operand" => n < it' - 1]_vars
    /\ [](\A k \in 1..Len(operands_) : operands_[k].isSink_ =>
             IsPrefix(before.operands[k].target_, operands_[k].target_))

\* The container held an element before the call and holds it first, and
\* two different tokens behind it in the order of the input.
C28_Witness ==
    /\ Succeeded
    /\ \E k \in 1..Len(operands_) : \E n \in 2..Len(argv) - 1 :
          /\ operands_[k].isSink_
          /\ before.operands[k].target_ # <<>>
          /\ role[n] = "operand"
          /\ role[n + 1] = "operand"
          /\ argv[n] # argv[n + 1]
          /\ operands_[k].target_ = before.operands[k].target_ \o <<argv[n], argv[n + 1]>>


-----------------------------------------------------------------------------
(* C29: the end check runs before the required check: if a token remains   *)
(* unconsumed and a required argument is also unsatisfied, the parse fails *)
(* with the unexpected-argument error, not with the                        *)
(* required-argument-missing error.                                        *)

\* The stages have returned, a token is left and a required argument has
\* not been given.
LeftoverAndMissing ==
    /\ pc = "checkEnd"
    /\ it # end
    /\ Missing # {}

\* C29: with a token left over and a required argument unsatisfied the
\* call fails with "Unexpected argument" for that token; the required
\* check is reached only with every token consumed, so that the call that
\* reports a missing required argument has left no token.
C29_EndBeforeRequired ==
    /\ [][LeftoverAndMissing =>
             /\ pc' = "done"
             /\ outcome' = Error("Unexpected argument: ", argv[it])]_vars
    /\ [](pc = "checkRequired" => it = end)
    /\ [](Failed("Cannot find required argument: ") =>
             \A n \in 1..Len(argv) : role[n] # "none")

\* The call failed on a leftover token behind an option while a required
\* argument was missing.
C29_Witness ==
    /\ Failed("Unexpected argument: ")
    /\ Missing # {}
    /\ role[it] = "none"
    /\ \E n \in 2..it - 1 : role[n] = "option"


-----------------------------------------------------------------------------
(* C30: a parse call ends at the first token, in left-to-right order,      *)
(* whose processing fails or fires a signal, and has exactly one outcome   *)
(* (success, one Error, or one Signal): an error at an earlier token       *)
(* prevents a signal at a later token from being raised, and a signal at   *)
(* an earlier token prevents any error caused by later tokens.             *)

\* The token is the short or the long form of a declared signal.
NamesSignal(t) ==
    \E o \in 1..Len(options_) :
        /\ options_[o].kind = "signal"
        /\ \/ options_[o].shortName_ # NUL /\ t = <<shortPrefix_, options_[o].shortName_>>
           \/ options_[o].longName_ # <<>> /\ t = longPrefix_ \o options_[o].longName_

\* The token is a long option whose name is not declared.
NamesUnknown(t) == LongShaped(t) /\ ~IsTerminator(t) /\ UnknownLong(LongName(t))

\* The call has been left by an exception.
Thrown == outcome.kind \in {"Error", "Signal"}

\* C30: the tokens are walked from left to right and the tokens from the
\* one the call stands at are untouched; the step that throws an Error or
\* a Signal is the last step of the call, so that its exception is the one
\* outcome and no token to the right of the walk is ever processed; a call
\* has an outcome exactly when it has ended, and it is Success, an Error or
\* a Signal.
C30_FirstFailure ==
    /\ [][it' >= it]_vars
    /\ [](\A n \in it..Len(argv) : role[n] = "none")
    /\ [][outcome = Running]_vars
    /\ [][Thrown' => pc' = "done"]_vars
    /\ [](pc = "done" <=> outcome # Running)
    /\ [](outcome.kind \in {"Running", "Success", "Error", "Signal"})

\* An unknown option before a signal: the call ended with the Error of the
\* first and the token of the signal was never processed.
C30_Witness ==
    /\ Finished
    /\ outcome.kind = "Error"
    /\ it = Len(argv)
    /\ NamesUnknown(argv[it - 1])
    /\ role[it - 1] = "option"
    /\ NamesSignal(argv[it])
    /\ role[it] = "none"


-----------------------------------------------------------------------------
(* C31: the terminated flag is never reset: if any parse call on a Parser  *)
(* consumed a terminator, then in every later parse call on the same       *)
(* Parser no token is recognized as an option, signal or terminator, so    *)
(* option-looking tokens are taken as operand values or reported as        *)
(* unexpected arguments.                                                   *)

\* The running call is a later call on a Parser that an earlier call left
\* terminated.
TerminatedBefore == before.call = "later" /\ before.isTerminated

\* C31: isTerminated_ never goes back to false, not when parse() is called
\* again either, and it becomes true only in a step that consumes a
\* terminator.  In a call entered with it set no token is consumed as an
\* option or a terminator, no option is touched and no Signal is thrown:
\* every token of the finished call behind the utility name was stored as
\* an operand value, or the call failed with "Unexpected argument" for the
\* first token that was left.
C31_StaysTerminated ==
    /\ [][isTerminated_ => isTerminated_']_vars
    /\ [][~isTerminated_ /\ isTerminated_' =>
             \E n \in 1..Len(argv) : role[n] = "none" /\ role'[n] = "terminator"]_vars
    /\ [](TerminatedBefore =>
             /\ isTerminated_
             /\ \A n \in 1..Len(argv) : role[n] \in {"none", "utility", "operand"}
             /\ options_ = before.options
             /\ outcome.kind # "Signal"
             /\ Finished =>
                   \/ \A n \in 2..Len(argv) : role[n] = "operand"
                   \/ /\ it <= Len(argv)
                      /\ outcome = Error("Unexpected argument: ", argv[it])
                      /\ \A n \in 2..it - 1 : role[n] = "operand")

\* A later call on a terminated Parser was given an option, then a signal:
\* the operand holds the first, the second is the unexpected argument, and
\* the option is not set.
C31_Witness ==
    /\ TerminatedBefore
    /\ Finished
    /\ Len(argv) = 3
    /\ \E o, g \in 1..Len(options_) :
          /\ options_[o].kind = "bool"
          /\ argv[2] = <<shortPrefix_, options_[o].shortName_>>
          /\ ~options_[o].target_
          /\ options_[g].kind = "signal"
          /\ argv[3] = <<shortPrefix_, options_[g].shortName_>>
    /\ role[2] = "operand"
    /\ operands_[1].target_ = argv[2]
    /\ outcome = Error("Unexpected argument: ", argv[3])


-----------------------------------------------------------------------------
(* C32: the satisfied flag is never reset: a required argument that was    *)
(* satisfied in an earlier parse call on the same Parser does not cause a  *)
(* required-argument-missing error in a later parse call whose input omits *)
(* it.                                                                     *)

\* The declared arguments as they were when the running call was entered.
DeclaredBefore == before.options \o before.operands

\* Argument i is required and an earlier call has left it done.
SatisfiedBefore(i) ==
    /\ before.call = "later"
    /\ DeclaredBefore[i].isRequired_
    /\ DeclaredBefore[i].isDone_

\* C32: isDone_ of an argument never goes back to false, not when parse()
\* is called again either; an argument that an earlier call left done is
\* done in every state of a later call, and a later call that fails with
\* "Cannot find required argument" names an argument that was not done
\* when it was entered.
C32_StaysSatisfied ==
    /\ [][\A i \in 1..Len(Declared) : Declared[i].isDone_ => Declared'[i].isDone_]_vars
    /\ [](\A i \in 1..Len(Declared) : SatisfiedBefore(i) =>
             /\ Declared[i].isDone_
             /\ i \notin Missing
             /\ outcome # Error("Cannot find required argument: ", Label(Declared[i])))
    /\ [](before.call = "later" /\ Failed("Cannot find required argument: ") =>
             /\ Missing # {}
             /\ ~DeclaredBefore[Least(Missing)].isDone_)

\* A later call succeeded without a token for a required option and with
\* no operand value, both given in the earlier call.
C32_Witness ==
    /\ Succeeded
    /\ before.call = "later"
    /\ Len(argv) >= 1
    /\ \A n \in 1..Len(argv) : role[n] \notin {"option", "operand"}
    /\ \E i \in 1..Len(options_) : SatisfiedBefore(i)
    /\ \E i \in Len(options_) + 1..Len(Declared) : SatisfiedBefore(i)


-----------------------------------------------------------------------------
(* C33: rendering help changes nothing except the output sink (no change   *)
(* to declared arguments, configuration, terminated flag, satisfied flags, *)
(* bound variables, or the stream's formatting flags and locale), and the  *)
(* rendered text does not depend on the terminated or satisfied flags nor  *)
(* on whether a preceding parse call succeeded or failed.                  *)

\* The step writes the help.
WritesHelp == stream'.count = stream.count + 1

\* The two glossaries and the epilog written behind out for the arguments
\* as the last parse call found them.
GlossariesBefore(out) ==
    writeParagraph(
       writeGlossary(
          writeGlossary(out, optionsTitle_, before.options),
          operandsTitle_, before.operands),
       helpEpilog_)

\* C33: the step that writes the help leaves the parser, its arguments
\* with their flags and bound variables, the configuration, and the
\* formatting flags and the locale of the stream as they are.  The text is
\* the one written for the arguments as they were before the last parse
\* call completed any of them: the usage tokens of the arguments are the
\* same, and the glossaries and the epilog are those of the arguments of
\* that time, whatever the call set, and whether it returned or threw.
C33_HelpIsPure ==
    /\ [][WritesHelp =>
             /\ UNCHANGED <<parserVars, helpSettings, codec, wrap>>
             /\ stream'.flags = stream.flags
             /\ stream'.locale = stream.locale
             /\ stream'.text =
                   GlossariesBefore(writeUsage(writeParagraph(<<>>, helpProlog_)))]_vars
    /\ [](/\ pushUsageTokens(<<>>, options_) = pushUsageTokens(<<>>, before.options)
          /\ pushUsageTokens(<<>>, operands_) = pushUsageTokens(<<>>, before.operands))
    /\ [](\E format \in StreamFormats :
             stream.flags = format.flags /\ stream.locale = format.locale)

\* The help was written to a stream with flags of its own after a parse
\* call that set an option and then failed.
C33_Witness ==
    /\ stream.at = "done"
    /\ stream.flags # NoStream.flags
    /\ outcome.kind = "Error"
    /\ stream.text # <<>>
    /\ \E o \in 1..Len(options_) :
          /\ options_[o].isDone_
          /\ ~before.options[o].isDone_
          /\ optionsTitle_ # <<>>


-----------------------------------------------------------------------------
(* C34: within one parse call the options stage is never re-entered: once  *)
(* the first token that is neither a terminator nor an option token has    *)
(* been reached, no option target is written and no Signal is raised for   *)
(* the rest of the call; an option-looking token after an operand value    *)
(* yields an 'Unexpected option' or 'Unexpected argument' error instead.   *)

\* The statements of parseAll behind the options stage.
PastOptions == {"parseOperands", "parseTerminator", "checkEnd", "checkRequired", "done"}

\* Token n looks like an option, is not the terminator, and a token before
\* it was stored as an operand value.
OptionAfterOperand(n) ==
    /\ OptionShaped(argv[n])
    /\ ~IsTerminator(argv[n])
    /\ \E m \in 1..n - 1 : role[m] = "operand"

\* The call has consumed a terminator.
MetTerminator == \E k \in 1..Len(argv) : role[k] = "terminator"

\* C34 as stated: a call with an option-looking token behind an operand
\* value ends with an Error.
C34_AsStated ==
    \A n \in 1..Len(argv) :
        Finished /\ OptionAfterOperand(n) => outcome.kind = "Error"

\* C34 amended: the options stage is never re-entered, and behind it no
\* option is written and no Signal is thrown.  No token behind an operand
\* value is consumed as an option or as the value of one.  An
\* option-looking token behind an operand value fails the call, with
\* "Unexpected option" or "Unexpected argument" when it is the token the
\* Error names, unless the call has consumed a terminator: then it is
\* stored as an operand value, or the call fails.
C34_NoReentry ==
    /\ [][(pc \in PastOptions) =>
             /\ pc' \in PastOptions
             /\ outcome'.kind # "Signal"
             /\ options_' = options_]_vars
    /\ [](\A n \in 1..Len(argv) :
             (\E m \in 1..n - 1 : role[m] = "operand") => role[n] \notin {"option", "value"})
    /\ [](\A n \in 1..Len(argv) :
             Finished /\ OptionAfterOperand(n) =>
                IF MetTerminator
                THEN \/ role[n] = "operand"
                     \/ outcome.kind = "Error"
                ELSE /\ outcome.kind = "Error"
                     /\ role[n] = "none"
                     /\ outcome.what = argv[n] =>
                           outcome.message \in {"Unexpected option: ",
                                                "Unexpected argument: "})

\* An option-looking token behind an operand value stopped the call with
\* "Unexpected option", although it names a declared option.
C34_Witness ==
    /\ Failed("Unexpected option: ")
    /\ ~MetTerminator
    /\ OptionAfterOperand(it)
    /\ role[it] = "none"
    /\ \E o \in 1..Len(options_) :
          /\ options_[o].kind = "bool"
          /\ argv[it] = <<shortPrefix_, options_[o].shortName_>>
          /\ ~options_[o].target_


-----------------------------------------------------------------------------
(* C35: an operand declared after a sink operand never receives a token in *)
(* any parse call, because the sink's loop only exits when the input is    *)
(* exhausted or an error is raised; if such an operand is required and was *)
(* not satisfied before, every parse call that does not end in a Signal or *)
(* another error fails with the required-argument-missing error.           *)

\* Operand k is declared behind a sink.
AfterSink(k) == \E j \in 1..k - 1 : operands_[j].isSink_

\* C35: no step of any call changes an operand declared behind a sink: it
\* keeps its value and is never done.  The loop of a sink is left only at
\* the end of the input or by an exception.  When such an operand is
\* required, no call succeeds: a call that ends without a Signal and
\* without another Error fails with "Cannot find required argument".
C35_AfterSink ==
    /\ [][\A k \in 1..Len(operands_) : AfterSink(k) => operands_'[k] = operands_[k]]_vars
    /\ [](\A k \in 1..Len(operands_) : AfterSink(k) => ~operands_[k].isDone_)
    /\ [][(pc = "parseOperands" /\ operands_[operand].isSink_) =>
             \/ pc' = "parseOperands" /\ operand' = operand
             \/ it' = end
             \/ pc' = "done" /\ outcome'.kind = "Error"]_vars
    /\ [](\A k \in 1..Len(operands_) :
             (AfterSink(k) /\ operands_[k].isRequired_ /\ Finished /\ ~OtherFailure) =>
                 Failed("Cannot find required argument: "))

\* A second call gave the sink further tokens, and like the first it
\* fails for the required operand behind the sink, which still holds its
\* initial value.
C35_Witness ==
    /\ before.call = "later"
    /\ Failed("Cannot find required argument: ")
    /\ \E k \in 2..Len(operands_) :
          /\ AfterSink(k)
          /\ operands_[k].isRequired_
          /\ outcome.what = operands_[k].valueName_
          /\ operands_[k].target_ = <<"o">>
          /\ Len(before.operands[k - 1].target_) >= 1
          /\ Len(operands_[k - 1].target_) > Len(before.operands[k - 1].target_)
          /\ \E n \in 1..Len(argv) : role[n] = "terminator"


-----------------------------------------------------------------------------
(* C36: an argument's satisfied flag is true only if the argument is not a *)
(* signal and, when it takes a value, at least one value token was         *)
(* converted and stored successfully for it; a failed conversion or a      *)
(* fired signal leaves the flag unchanged, and the flag never changes from *)
(* true to false.                                                          *)

\* The strings the running call can have handed to Arg::parse of declared
\* argument i: for an option the token after its own and the rest of an
\* option token, for an operand the tokens read as operand values.
HandedTo(i) ==
    IF i <= Len(options_)
    THEN {argv[n] : n \in {m \in 1..Len(argv) : role[m] = "value"}}
         \cup UNION {{Range(argv[n], k) : k \in 2..Len(argv[n]) + 1} :
                        n \in {m \in 1..Len(argv) : role[m] = "option"}}
    ELSE {argv[n] : n \in {m \in 1..Len(argv) : role[m] = "operand"}}

\* What the conversions that succeed make of these strings.
ConvertedFor(i) ==
    {fromString(Declared[i].T, s).value :
        s \in {h \in HandedTo(i) : fromString(Declared[i].T, h).ok}}

\* The target of argument i holds a value the running call converted: the
\* target of a ValueArg is one, a SinkArg has grown by such values.
StoredFor(i) ==
    IF Declared[i].isSink_
    THEN /\ Len(Declared[i].target_) > Len(DeclaredBefore[i].target_)
         /\ \A k \in Len(DeclaredBefore[i].target_) + 1..Len(Declared[i].target_) :
                Declared[i].target_[k] \in ConvertedFor(i)
    ELSE Declared[i].target_ \in ConvertedFor(i)

\* The flag of every declared argument, in order.
Flags(args) == [i \in 1..Len(args) |-> args[i].isDone_]

\* C36: a SignalArg is never done; an argument with a value that the
\* running call has made done holds a value that the call converted from
\* one of its tokens; a step that is left by an Error of a conversion or by
\* a Signal changes no isDone_; no step resets an isDone_.
C36_SatisfiedFlag ==
    /\ [](\A i \in 1..Len(Declared) :
             Declared[i].isDone_ =>
                /\ Declared[i].kind # "signal"
                /\ Declared[i].hasValue_ /\ ~DeclaredBefore[i].isDone_ => StoredFor(i))
    /\ [][(outcome = Running /\ outcome'.kind \in {"Error", "Signal"})
             => Flags(Declared') = Flags(Declared)]_vars
    /\ [][\A i \in 1..Len(Declared) :
             Flags(Declared)[i] => Flags(Declared')[i]]_vars

\* A call that a failed conversion ended, with a value option done by an
\* earlier token and another value argument that is still not done.
C36_Witness ==
    /\ pc = "done"
    /\ outcome.kind = "Error"
    /\ outcome.message \in {"Cannot parse integer: ", "Cannot parse unsigned integer: "}
    /\ \E i \in 1..Len(Declared) :
          /\ Declared[i].hasValue_
          /\ Declared[i].isDone_
          /\ StoredFor(i)
    /\ \E i \in 1..Len(Declared) :
          /\ Declared[i].hasValue_
          /\ ~Declared[i].isDone_


-----------------------------------------------------------------------------
(* C37: a token predicted as a long option is never retried as a           *)
(* short-option cluster: if its long-name lookup fails the parse fails     *)
(* with the unknown-option-name error, even when the token also satisfies  *)
(* the short-option prediction and each of its characters names a declared *)
(* short option.                                                           *)

\* Token n was taken as an option and has the shape predictLongOption
\* accepts, but no option is declared under its long name.
LongNotDeclared(n) ==
    /\ role[n] = "option"
    /\ LongShaped(argv[n])
    /\ WithLong(LongName(argv[n])) = {}

\* Token n also reads as a cluster of declared short options.
ReadsAsCluster(n) ==
    /\ ShortShaped(argv[n])
    /\ \A k \in 2..Len(argv[n]) : WithShort(argv[n][k]) # {}

\* C37: once a token that predictLongOption accepts was taken as an option
\* and its name is not a declared long name, the call has ended with
\* "Unknown option name" for that name right behind the token, whether or
\* not the token reads as a short cluster; the walk of parseShortOptions is
\* never in a token that predictLongOption accepts, and the step that takes
\* such a token changes no option.
C37_NoShortRetry ==
    /\ [](\A n \in 1..Len(argv) :
             LongNotDeclared(n) =>
                /\ Failed("Unknown option name: ")
                /\ outcome.what = LongName(argv[n])
                /\ it = n + 1)
    /\ [](pc = "parseShortOptions" => ~LongShaped(argv[token]))
    /\ [][\A n \in 1..Len(argv) :
             ~LongNotDeclared(n) /\ LongNotDeclared(n)' => options_' = options_]_vars

\* The case of the claim: both prefixes are equal, the second token reads
\* as a declared short option and as a long option of an undeclared name,
\* and the call failed at it.
C37_Witness ==
    /\ Len(argv) = 2
    /\ LongNotDeclared(2)
    /\ ReadsAsCluster(2)
    /\ Failed("Unknown option name: ")
    /\ outcome.what = Range(argv[2], 2)
    /\ \A o \in WithShort(argv[2][2]) : ~options_[o].isDone_


-----------------------------------------------------------------------------
(* C38: for every call of the wrap routine made by the help renderer       *)
(* (paragraphs, usage line, glossary descriptions) and every width and     *)
(* indent, a token that overflows the help width is appended without a     *)
(* preceding line break only if no token has yet been emitted by that call *)
(* on the current line; the routine never puts two of its tokens on a line *)
(* that exceeds the width.                                                 *)

\* Word k was written and ends beyond the help width.
EndsBeyondWidth(k) ==
    /\ ~IsNewlineToken(wrap.tokens[k])
    /\ wrap.placed[k].column + Len(wrap.tokens[k]) > helpWidth_

\* The words the call has written before word k on the line of word k.
EarlierOnLine(k) ==
    {j \in 1..k - 1 :
        /\ ~IsNewlineToken(wrap.tokens[j])
        /\ wrap.placed[j].line = wrap.placed[k].line}

\* C38 as stated: a word that ends beyond the help width is the first word
\* the call has written on its line.
C38_AsStated ==
    wrap.at # "off" =>
        \A k \in 1..Len(wrap.placed) : EndsBeyondWidth(k) => EarlierOnLine(k) = {}

\* C38 amended: a word that ends beyond the help width was reached at or
\* before the hanging indent or is the first word of its line; it follows
\* another word of the call on its line only on the first line of a call
\* that starts before its hanging indent (the usage line), having been
\* reached at or before the hanging indent.
C38_FirstOnLine ==
    wrap.at # "off" =>
        \A k \in 1..Len(wrap.placed) :
            EndsBeyondWidth(k) /\ EarlierOnLine(k) # {} =>
                /\ wrap.placed[k].from <= wrap.hangingIndent
                /\ wrap.placed[k].line = 0
                /\ wrap.initialPos < wrap.hangingIndent

\* A usage line whose second word follows a short utility name beyond the
\* help width, and whose third word, reached past the hanging indent, is
\* the first of the next line although it ends beyond the width too.
C38_Witness ==
    /\ wrap.at = "returned"
    /\ Len(wrap.placed) >= 3
    /\ EndsBeyondWidth(2) /\ EarlierOnLine(2) = {1}
    /\ EndsBeyondWidth(3) /\ EarlierOnLine(3) = {}
    /\ wrap.placed[3].from > wrap.hangingIndent
    /\ wrap.placed[3].line = 1


-----------------------------------------------------------------------------
(* C39: the parse cursor only moves forward, and on a successful parse     *)
(* every input token has been consumed exactly once: the first as the      *)
(* utility name and each other token as exactly one of terminator, option  *)
(* token, option value or operand value.                                   *)

\* The tokens this step consumes: they had no role and get one.
Consumes == {n \in 1..Len(argv) : role[n] = "none" /\ role'[n] # "none"}

\* A step of the running call, not the one that enters it.
StepOfCall == pc \notin {"idle", "done"} /\ argv' = argv

\* C39: during a call the iterator never goes back; a token that was
\* consumed keeps the role it was consumed in; a step that no exception
\* leaves consumes the tokens the iterator passes and no others; and when
\* the call has succeeded the iterator is at the end, the first token was
\* consumed as the utility name and every other token as terminator, option
\* token, option value or operand value.
C39_ConsumedOnce ==
    /\ [][StepOfCall => it' >= it]_vars
    /\ [][StepOfCall =>
             \A n \in 1..Len(argv) : role[n] # "none" => role'[n] = role[n]]_vars
    /\ [][StepOfCall /\ outcome'.kind \notin {"Error", "Signal"} =>
             Consumes = it..it' - 1]_vars
    /\ [](Succeeded =>
             /\ it = end
             /\ argv # <<>> => role[1] = "utility"
             /\ \A n \in 2..Len(argv) :
                   role[n] \in {"terminator", "option", "value", "operand"})

\* A call that succeeded on the utility name and three tokens behind it,
\* each consumed in another way: three of option token, option value,
\* terminator and operand value.
C39_Witness ==
    /\ Succeeded
    /\ Len(argv) = 4
    /\ it = 5
    /\ role[1] = "utility"
    /\ {role[n] : n \in 2..4} \in
          {{"option", "value", "operand"}, {"option", "terminator", "operand"},
           {"option", "value", "terminator"}}


-----------------------------------------------------------------------------
(* C40: every parse call on a finite token sequence terminates (with       *)
(* success, Error or Signal): each iteration of the options-stage loop, of *)
(* the short-cluster walk and of the sink loop either advances a cursor or *)
(* exits the loop.                                                         *)

\* The iteration of the loop of parseOptions, of the walk of
\* parseShortOptions or of the loop of a sink that this step is.
OptionsIteration == pc = "parseOptions"
ClusterIteration == pc = "parseShortOptions"
SinkLoopIteration == pc = "parseOperands" /\ operands_[operand].isSink_

\* What is left for the call to do: the statements of parseAll still to
\* run, then the tokens, then the characters of the token being walked.
StatementsLeft ==
    CASE pc \in {"idle", "parseUtility"}             -> 6
      [] pc \in {"parseOptions", "parseShortOptions"} -> 5
      [] pc = "parseOperands"                         -> 4
      [] pc = "parseTerminator"                       -> 3
      [] pc = "checkEnd"                              -> 2
      [] pc = "checkRequired"                         -> 1
      [] OTHER                                        -> 0

Progress ==
    \/ StatementsLeft' < StatementsLeft
    \/ StatementsLeft' = StatementsLeft /\ it' > it
    \/ StatementsLeft' = StatementsLeft /\ it' = it /\ operand' > operand
    \/ /\ StatementsLeft' = StatementsLeft /\ it' = it /\ operand' = operand
       /\ pc = "parseShortOptions"
       /\ pc' = "parseOptions" \/ nameIt' > nameIt

\* C40: a call that was entered ends, with Success, an Error or a Signal;
\* an iteration of the loop of parseOptions advances the iterator or leaves
\* the loop, a step of the walk of a cluster advances in the token or
\* leaves the walk, an iteration of the loop of a sink advances the
\* iterator or leaves the loop; and every step of a call takes it closer to
\* its end.
C40_Terminates ==
    /\ (pc = "parseUtility") ~> (Finished /\ outcome.kind \in {"Success", "Error", "Signal"})
    /\ [][OptionsIteration =>
             it' > it \/ pc' \notin {"parseOptions", "parseShortOptions"}]_vars
    /\ [][ClusterIteration =>
             nameIt' > nameIt \/ pc' # "parseShortOptions"]_vars
    /\ [][SinkLoopIteration =>
             it' > it \/ pc' # "parseOperands"]_vars
    /\ [][(pc \notin {"idle", "done"}) => Progress]_vars

\* A call that ended after all three loops have run: a cluster was walked,
\* and a sink took two tokens.
C40_Witness ==
    /\ Finished
    /\ \E n \in 2..Len(argv) :
          /\ role[n] = "option"
          /\ ~LongShaped(argv[n])
    /\ \E i \in 1..Len(operands_) :
          /\ operands_[i].isSink_
          /\ Len(operands_[i].target_) >= 2
    /\ Cardinality({n \in 1..Len(argv) : role[n] = "operand"}) >= 2

=============================================================================
